---- MODULE Spec2Model ----
(***************************************************************************)
(* Hevy -> Convex -> Notion synchronisation.                               *)
(*                                                                         *)
(* The local store (Convex tables), the reconciler mutations of            *)
(* convex/sync.ts, the source-side passes of convex/hevy.ts and the        *)
(* mirror passes of convex/notion.ts.  Every Convex mutation is one        *)
(* atomic step (Convex runs a mutation as a transaction); an action        *)
(* (fullSync, incrementalSync, syncToNotion, ...) is a sequence of such    *)
(* steps.  Spec, SpecWorkouts and SpecRoutines run the passes one after    *)
(* the other; SpecOverlap lets the source passes overlap.  SpecEntry puts  *)
(* the workout passes behind the HTTP routes and the cron job, in any      *)
(* deployment (process.env); SpecRedelivery hands an event list to         *)
(* incrementalSync twice; SpecStats and SpecBatch exercise the totals of   *)
(* upsertWorkout and batchProcess on their own.  SpecRace lets a source    *)
(* pass and two syncToNotion calls overlap, SpecProgress aggregates a      *)
(* history of sessions, and SpecCursor runs incrementalSync against an     *)
(* event log the source keeps writing to; SpecSource adds fullSync to      *)
(* that, and SpecSortKeys computes the sort keys of pairs of exercises.    *)
(***************************************************************************)
EXTENDS Integers, Sequences, FiniteSets, TLC

VARIABLES
    workouts,          \* table "workouts"
    exercises,         \* table "exercises"
    sets,              \* table "sets"
    routineFolders,    \* table "routineFolders"
    routines,          \* table "routines"
    routineExercises,  \* table "routineExercises"
    routineSets,       \* table "routineSets"
    exerciseProgress,  \* table "exerciseProgress"
    syncState,         \* table "syncState" (at most one row)
    nextId,            \* next document id the store hands out
    pages,             \* the mirror: every page of every Notion database
    nextPage,          \* next page id the mirror hands out
    now,               \* the clock read by new Date()
    hevyPass,          \* the running fullSync / incrementalSync / syncRoutines passes
    push,              \* the running syncToNotion passes
    rpush,             \* the running syncRoutinesToNotion pass
    ppush,             \* the running syncExerciseProgress pass
    spent,             \* passes started so far, per kind
    env,               \* process.env of the deployment: which settings are present
    batch,             \* the running batchProcess call
    redelivery,        \* an event list delivered to incrementalSync a second time
    feed,              \* the source's event log and the incrementalSync pass reading it
    last               \* the step taken last (history)

store == <<workouts, exercises, sets, routineFolders, routines,
           routineExercises, routineSets, exerciseProgress, syncState, nextId>>
routineStore == <<routineFolders, routines, routineExercises, routineSets>>
workoutStore == <<workouts, exercises, sets>>
mirror == <<pages, nextPage>>
\* what the passes over workouts, routines and progress never write
rest == <<env, batch, redelivery, feed>>
vars == <<workouts, exercises, sets, routineFolders, routines,
          routineExercises, routineSets, exerciseProgress, syncState, nextId,
          pages, nextPage, now, hevyPass, push, rpush, ppush, spent, env, batch,
          redelivery, feed, last>>

-----------------------------------------------------------------------------
(* Bounds of the model *)

\* fetched items (workouts, events, folders, routines) one source pass handles
MaxItems == 2
\* source passes (fullSync, incrementalSync, syncRoutines) started in a run
MaxHevyPasses == 2
\* mirror passes (syncToNotion, syncRoutinesToNotion, syncExerciseProgress) started in a run
MaxPushes == 2
\* the passes of one behaviour of the whole program
MaxPasses == 3
\* the page_count a source listing reports
MaxPages == 2
\* the events of a list that is delivered twice
MaxEvents == 3
\* the sets of a workout whose totals are checked
MaxStatSets == 3
\* the items and the concurrency batchProcess is called with
MaxBatchItems == 5
MaxConcurrency == 3
\* the workouts or events a source pass of the race specification receives
MaxRaceItems == 1
\* the events the source logs in a run of the cursor specification
MaxFeed == 2
\* passes over that log, fullSync and incrementalSync together
MaxFeedPasses == 3

-----------------------------------------------------------------------------
(* Optional values: JavaScript undefined / null is None, a value v is Some(v) *)

None == <<>>
Some(v) == <<v>>
IsSome(o) == o # None
Val(o) == o[1]

\* JavaScript truthiness of an optional number: null, undefined and 0 are falsy
Truthy(o) == IsSome(o) /\ Val(o) # 0
\* x || undefined
OrUndefined(o) == IF Truthy(o) THEN o ELSE None
\* x || 0
OrZero(o) == IF Truthy(o) THEN Val(o) ELSE 0

\* Math.round of the rational n/d (d > 0): the nearest integer, halves up
RoundDiv(n, d) == (2 * n + d) \div (2 * d)

Max(S) == CHOOSE x \in S : \A y \in S : x >= y

\* the documents of a table in the order a query returns them (creation order)
RECURSIVE ById(_)
ById(T) ==
    IF T = {} THEN <<>>
    ELSE LET m == CHOOSE r \in T : \A q \in T : r.id <= q.id
         IN <<m>> \o ById(T \ {m})

\* .first() of an index query: the oldest matching document, or None
First(T) == IF T = {} THEN None ELSE Some(ById(T)[1])

RECURSIVE Flatten(_)
Flatten(ss) == IF ss = <<>> THEN <<>> ELSE Head(ss) \o Flatten(Tail(ss))

RECURSIVE SumSeq(_)
SumSeq(s) == IF s = <<>> THEN 0 ELSE Head(s) + SumSeq(Tail(s))



-----------------------------------------------------------------------------
(* process.env: a setting is present (TRUE) or absent (FALSE) *)

Envs == [HEVY_API_KEY : BOOLEAN, NOTION_TOKEN : BOOLEAN, SYNC_WEBHOOK_SECRET : BOOLEAN]
\* the deployment with every setting present
Configured == [HEVY_API_KEY |-> TRUE, NOTION_TOKEN |-> TRUE, SYNC_WEBHOOK_SECRET |-> TRUE]

\* notionRequest: without NOTION_TOKEN it throws before a request is sent; with
\* it, a request succeeds or fails (a response that is not ok)
RequestOutcomes == IF env.NOTION_TOKEN THEN BOOLEAN ELSE {FALSE}
\* of n requests in a row, how many succeed before one fails
SucceedingCalls(n) == IF env.NOTION_TOKEN THEN 0..n ELSE {0}

-----------------------------------------------------------------------------
(* Source payloads (HevyWorkout, HevyExercise, HevySet of convex/hevy.ts).   *)
(* Weights are in hundredths of a kilogram, times in milliseconds.           *)

HSet(i, type, w, r) ==
    [index |-> i, type |-> type, weight_kg |-> w, reps |-> r,
     distance_meters |-> None, duration_seconds |-> None, rpe |-> None,
     custom_metric |-> None]

HExercise(i, title, template, ss) ==
    [index |-> i, title |-> title, notes |-> "", exercise_template_id |-> template,
     superset_id |-> None, sets |-> ss]

HWorkout(id, title, start, end, exs) ==
    [id |-> id, title |-> title, description |-> "", start_time |-> start,
     end_time |-> end, exercises |-> exs]

HevyIds == {"w1", "w2"}

\* w1 as first logged: one exercise, a 22.25 kg x 5 set and a warm-up without weight
PayloadW1a ==
    HWorkout("w1", "Push", 0, Some(4530000),
             << HExercise(0, "Bench Press", "t1",
                          << HSet(0, "warmup", None, Some(8)),
                             HSet(1, "normal", Some(2225), Some(5)) >>) >>)

\* w1 after an edit at the source: another exercise, one set, no end time
PayloadW1b ==
    HWorkout("w1", "Push", 0, None,
             << HExercise(0, "Squat", "t2",
                          << HSet(0, "normal", Some(10000), Some(10)) >>) >>)

PayloadW2 ==
    HWorkout("w2", "Legs", 86400000, Some(90000000),
             << HExercise(0, "Squat", "t2",
                          << HSet(0, "normal", Some(6000), Some(0)) >>) >>)

WorkoutPayloads == {PayloadW1a, PayloadW1b, PayloadW2}

\* workouts of one exercise with 1..MaxStatSets sets, each set with or without
\* a weight and with or without reps
StatWeights == {None, Some(0), Some(2225), Some(5000), Some(10000)}
StatReps == {None, Some(0), Some(5), Some(8), Some(10)}
StatPayloads ==
    { HWorkout("w1", "Push", 0, None,
               << HExercise(0, "Bench Press", "t1",
                            [i \in 1..n |-> HSet(i - 1, "normal", ws[i], rs[i])]) >>) :
      <<n, ws, rs>> \in UNION { {n} \X [1..n -> StatWeights] \X [1..n -> StatReps] :
                                n \in 1..MaxStatSets } }

\* workouts of one exercise of template t1, performed on either of two days:
\* warm-up sets only, working sets only, both in either order, or no set
ProgressSetLists ==
    { <<>>,
      << HSet(0, "warmup", Some(2000), Some(10)) >>,
      << HSet(0, "normal", Some(5000), Some(5)) >>,
      << HSet(0, "normal", Some(6000), Some(8)), HSet(1, "warmup", Some(2000), Some(5)) >>,
      << HSet(0, "warmup", Some(2000), Some(5)), HSet(1, "normal", Some(5000), Some(5)),
         HSet(2, "dropset", None, Some(12)) >> }
ProgressPayloads ==
    { HWorkout(id, "Push", start, None, << HExercise(0, "Bench Press", "t1", ss) >>) :
        <<id, start, ss>> \in HevyIds \X {0, 86400000} \X ProgressSetLists }

\* the events of GET /workouts/events
UpdatedEvent(p) == [type |-> "updated", workout |-> Some(p), id |-> None]
DeletedEvent(h) == [type |-> "deleted", workout |-> None, id |-> Some(h)]
HevyEvents == {UpdatedEvent(p) : p \in WorkoutPayloads} \cup {DeletedEvent(h) : h \in HevyIds}

-----------------------------------------------------------------------------
(* upsertWorkout, markWorkoutDeleted (convex/sync.ts) *)

AllSets(p) == Flatten([i \in 1..Len(p.exercises) |-> p.exercises[i].sets])

\* the loop "Calculate stats": every set counts; reps count when truthy;
\* weight * reps counts when both are truthy
\* (a variant that counts the sets that have reps)
TotalSetsWithReps(p) ==
    Cardinality({i \in 1..Len(AllSets(p)) : Truthy(AllSets(p)[i].reps)})
TotalSets(p) == Len(AllSets(p))
\* (a variant that counts the reps of the sets that have a weight)
TotalRepsWeighted(p) ==
    SumSeq([i \in 1..Len(AllSets(p)) |->
              IF Truthy(AllSets(p)[i].reps) /\ Truthy(AllSets(p)[i].weight_kg)
              THEN Val(AllSets(p)[i].reps) ELSE 0])
TotalReps(p) ==
    SumSeq([i \in 1..Len(AllSets(p)) |->
              IF Truthy(AllSets(p)[i].reps) THEN Val(AllSets(p)[i].reps) ELSE 0])
RawVolume(p) ==
    SumSeq([i \in 1..Len(AllSets(p)) |->
              IF Truthy(AllSets(p)[i].reps) /\ Truthy(AllSets(p)[i].weight_kg)
              THEN Val(AllSets(p)[i].weight_kg) * Val(AllSets(p)[i].reps) ELSE 0])
\* Math.round(totalVolume * 10) / 10, kept in tenths of a kilogram
TotalVolume(p) == RoundDiv(RawVolume(p), 10)

\* Math.round((end - start) / 60000) when there is an end time
DurationMinutes(p) ==
    IF IsSome(p.end_time) THEN Some(RoundDiv(Val(p.end_time) - p.start_time, 60000))
    ELSE None

\* workout.description || undefined, exercise.notes || undefined
StrOrUndefined(s) == IF s = "" THEN None ELSE Some(s)

\* (a variant whose lookup finds nothing)
ExistingWorkoutNone(W, hevyId) == None
\* the by_hevy_id lookup
ExistingWorkout(W, hevyId) == First({w \in W : w.hevyId = hevyId})

\* (a variant of the patch that leaves the needs-sync flag as it is)
PatchWorkoutKeepingFlag(w, p) ==
    [w EXCEPT !.title = p.title,
              !.description = StrOrUndefined(p.description),
              !.startTime = p.start_time,
              !.endTime = p.end_time,
              !.durationMinutes = DurationMinutes(p),
              !.totalVolume = TotalVolume(p),
              !.totalSets = TotalSets(p),
              !.totalReps = TotalReps(p),
              !.isDeleted = FALSE]
\* (a variant of the patch that also clears the page the record names)
PatchWorkoutForgettingPage(w, p) ==
    [w EXCEPT !.title = p.title,
              !.description = StrOrUndefined(p.description),
              !.startTime = p.start_time,
              !.endTime = p.end_time,
              !.durationMinutes = DurationMinutes(p),
              !.totalVolume = TotalVolume(p),
              !.totalSets = TotalSets(p),
              !.totalReps = TotalReps(p),
              !.syncedToNotion = FALSE,
              !.isDeleted = FALSE,
              !.notionPageId = None]
\* ctx.db.patch(existing._id, {...}) of the update branch
PatchWorkout(w, p) ==
    [w EXCEPT !.title = p.title,
              !.description = StrOrUndefined(p.description),
              !.startTime = p.start_time,
              !.endTime = p.end_time,
              !.durationMinutes = DurationMinutes(p),
              !.totalVolume = TotalVolume(p),
              !.totalSets = TotalSets(p),
              !.totalReps = TotalReps(p),
              !.syncedToNotion = FALSE,
              !.isDeleted = FALSE]

\* ctx.db.insert("workouts", {...}) of the insert branch
NewWorkout(id, p) ==
    [id |-> id, hevyId |-> p.id, title |-> p.title,
     description |-> StrOrUndefined(p.description),
     startTime |-> p.start_time, endTime |-> p.end_time,
     durationMinutes |-> DurationMinutes(p),
     totalVolume |-> TotalVolume(p), totalSets |-> TotalSets(p),
     totalReps |-> TotalReps(p),
     syncedToNotion |-> FALSE, isDeleted |-> FALSE, notionPageId |-> None]

\* (a variant that finds no exercise to delete)
StaleExercisesNone(E, workoutId) == {}
\* the exercises the update branch deletes: those of the by_workout index
StaleExercises(E, workoutId) == {e \in E : e.workoutId = workoutId}
\* (a variant that finds no set to delete)
StaleSetsNone(S, exs) == {}
\* the sets it deletes: those of the by_exercise index of each such exercise
StaleSets(S, exs) == {s \in S : s.exerciseId \in {e.id : e \in exs}}

\* documents are inserted exercise by exercise, each followed by its sets
RECURSIVE ExerciseOffset(_, _)
ExerciseOffset(exs, i) ==
    IF i = 1 THEN 0 ELSE ExerciseOffset(exs, i - 1) + 1 + Len(exs[i - 1].sets)

NewExercises(p, workoutId, base) ==
    { [id |-> base + ExerciseOffset(p.exercises, i),
       workoutId |-> workoutId,
       hevyExerciseIndex |-> p.exercises[i].index,
       exerciseTemplateId |-> p.exercises[i].exercise_template_id,
       title |-> p.exercises[i].title,
       notes |-> StrOrUndefined(p.exercises[i].notes),
       supersetId |-> OrUndefined(p.exercises[i].superset_id),
       syncedToNotion |-> FALSE] : i \in 1..Len(p.exercises) }

NewSets(p, workoutId, base) ==
    UNION { { [id |-> base + ExerciseOffset(p.exercises, i) + k,
               exerciseId |-> base + ExerciseOffset(p.exercises, i),
               workoutId |-> workoutId,
               setIndex |-> p.exercises[i].sets[k].index,
               setType |-> p.exercises[i].sets[k].type,
               weightKg |-> OrUndefined(p.exercises[i].sets[k].weight_kg),
               reps |-> OrUndefined(p.exercises[i].sets[k].reps),
               distanceMeters |-> OrUndefined(p.exercises[i].sets[k].distance_meters),
               durationSeconds |-> OrUndefined(p.exercises[i].sets[k].duration_seconds),
               rpe |-> OrUndefined(p.exercises[i].sets[k].rpe),
               customMetric |-> OrUndefined(p.exercises[i].sets[k].custom_metric),
               syncedToNotion |-> FALSE] : k \in 1..Len(p.exercises[i].sets) }
            : i \in 1..Len(p.exercises) }

ChildCount(p) == Len(p.exercises) + TotalSets(p)

\* the whole mutation, on the tables W, E, S with next free id n
UpsertWorkoutOn(W, E, S, n, p) ==
    LET existing == ExistingWorkout(W, p.id) IN
    IF IsSome(existing)
    THEN LET w == Val(existing)
             oldExs == StaleExercises(E, w.id)
         IN [workouts  |-> (W \ {w}) \cup {PatchWorkout(w, p)},
             exercises |-> (E \ oldExs) \cup NewExercises(p, w.id, n),
             sets      |-> (S \ StaleSets(S, oldExs)) \cup NewSets(p, w.id, n),
             nextId    |-> n + ChildCount(p),
             workoutId |-> w.id]
    ELSE [workouts  |-> W \cup {NewWorkout(n, p)},
          exercises |-> E \cup NewExercises(p, n, n + 1),
          sets      |-> S \cup NewSets(p, n, n + 1),
          nextId    |-> n + 1 + ChildCount(p),
          workoutId |-> n]

\* (a variant that leaves the needs-sync flag as it is)
TombstoneKeepingFlag(w) == [w EXCEPT !.isDeleted = TRUE]
\* ctx.db.patch(existing._id, {isDeleted: true, syncedToNotion: false})
Tombstone(w) == [w EXCEPT !.isDeleted = TRUE, !.syncedToNotion = FALSE]

\* (a variant whose patch is not guarded by "if (existing)")
\* (a variant that removes the row instead of marking it)
MarkWorkoutDeletedHard(W, hevyId) == {w \in W : w.hevyId # hevyId}
MarkWorkoutDeletedUnguarded(W, hevyId) == {Tombstone(w) : w \in W}
\* markWorkoutDeleted: first() of by_hevy_id, and the patch only if (existing)
MarkWorkoutDeletedOn(W, hevyId) ==
    LET existing == ExistingWorkout(W, hevyId) IN
    IF IsSome(existing)
    THEN (W \ {Val(existing)}) \cup {Tombstone(Val(existing))}
    ELSE W

\* (a variant that inserts the patched document beside the one it read)
MarkWorkoutSyncedCopy(W, workoutId, pageId) ==
    W \cup { [w EXCEPT !.id = 0, !.syncedToNotion = TRUE, !.notionPageId = Some(pageId)]
             : w \in {x \in W : x.id = workoutId} }
\* markWorkoutSynced: ctx.db.patch(workoutId, {...}); the patch of an id that
\* names no document throws
MarkWorkoutSyncedOn(W, workoutId, pageId) ==
    { IF w.id = workoutId
      THEN [w EXCEPT !.syncedToNotion = TRUE, !.notionPageId = Some(pageId)]
      ELSE w : w \in W }

\* getUnsyncedWorkouts: the by_synced index at syncedToNotion = false
UnsyncedWorkouts(W) == ById({w \in W : ~w.syncedToNotion})


-----------------------------------------------------------------------------
(* updateSyncState, and the source passes fullSync and incrementalSync       *)
(* (convex/hevy.ts).  A pass fetches its pages first and then hands the      *)
(* fetched items to the store one mutation at a time; the content of an      *)
(* item is whatever the source returned, so it is drawn when it is handled.  *)

\* the cursor incrementalSync starts from when syncState holds none
EpochStart == 0
\* the factor between the fields of a sort key: week * 100 + day
SortRadix == 100

\* (a variant that writes the time before the last clock reading)
UpdateSyncStateStale(st, t) ==
    Some([lastSyncedAt |-> Some(t), lastEventTimestamp |-> Some(t - 1),
          lastError |-> None, syncInProgress |-> FALSE])
\* updateSyncState: patch the one row, or insert it
UpdateSyncStateOn(st, t) ==
    IF IsSome(st)
    THEN Some([Val(st) EXCEPT !.lastSyncedAt = Some(t), !.lastEventTimestamp = Some(t)])
    ELSE Some([lastSyncedAt |-> Some(t), lastEventTimestamp |-> Some(t),
               lastError |-> None, syncInProgress |-> FALSE])

\* (upserted: the natural keys of the routines a syncRoutines pass has stored)
IdlePass == [pc |-> "idle", left |-> 0, total |-> 0, updated |-> 0, deleted |-> 0,
             since |-> EpochStart, page |-> 0, pages |-> 0, pipeline |-> FALSE,
             upserted |-> {}]

\* what the last step was: the operation, the natural key it was given, how it
\* ended, a count it returns, and the payload it was given (if any)
Did(op, arg, out, n) == [op |-> op, arg |-> arg, out |-> out, n |-> n, p |-> None]

\* an upsertWorkout step: the branch it takes, and how many times in a row
\* this payload has now been applied
DidUpsertWorkout(p) ==
    [op |-> "upsertWorkout", arg |-> p.id,
     out |-> IF IsSome(ExistingWorkout(workouts, p.id)) THEN "patched" ELSE "inserted",
     n |-> IF last.op = "upsertWorkout" /\ last.p = Some(p) THEN last.n + 1 ELSE 1,
     p |-> Some(p)]

UpsertWorkout(p) ==
    LET r == UpsertWorkoutOn(workouts, exercises, sets, nextId, p) IN
    /\ workouts' = r.workouts
    /\ exercises' = r.exercises
    /\ sets' = r.sets
    /\ nextId' = r.nextId

MarkWorkoutDeleted(hevyId) ==
    /\ workouts' = MarkWorkoutDeletedOn(workouts, hevyId)
    /\ UNCHANGED <<exercises, sets, nextId>>

\* (a variant that takes the key for present)
ApiKeyUnchecked == TRUE
\* const apiKey = process.env.HEVY_API_KEY; if (!apiKey) throw ...
ApiKeyPresent == env.HEVY_API_KEY

\* how a page request ends: response.json(), the throw on status 429, the
\* throw on another status that is not ok
FetchOutcomes == {"ok", "rate limited", "api error"}

\* the pass after a page came back with k items; count is page_count of the
\* first page.  After the last page the loop over the fetched items starts.
Fetched(pass, k, count) ==
    IF pass.page >= count
    THEN [pass EXCEPT !.pc = "run", !.left = @ + k, !.total = pass.left + k,
                      !.page = 0, !.pages = 0]
    ELSE [pass EXCEPT !.left = @ + k, !.page = @ + 1, !.pages = count]

\* (a variant that asks for the failed page again)
RetriedPass(pass) == pass
\* the pass after a page request threw: nothing catches it, the action ends
AbortedPass(pass) == IdlePass

\* the start of the handler, called through via: the API key check
FullSyncBegin(via) ==
    /\ hevyPass.full.pc = "idle"
    /\ spent.hevy < MaxHevyPasses
    /\ IF ApiKeyPresent
       THEN /\ hevyPass' = [hevyPass EXCEPT !.full = [IdlePass EXCEPT !.pc = "fetch",
                                                                      !.page = 1]]
            /\ last' = Did("fullSyncStart", via, "", 0)
       ELSE /\ UNCHANGED hevyPass
            /\ last' = Did("fullSync", via, "not configured", 0)
    /\ spent' = [spent EXCEPT !.hevy = @ + 1]
    /\ UNCHANGED <<rest, store, mirror, now, push, rpush, ppush>>

FullSyncStart == FullSyncBegin("")

\* fetchHevyWorkouts(apiKey, page, 10): the first page, then pages 2..page_count
FullSyncFetch ==
    /\ hevyPass.full.pc = "fetch"
    /\ \E res \in FetchOutcomes :
          IF res = "ok"
          THEN \E k \in 0..(MaxItems - hevyPass.full.left),
                  count \in (IF hevyPass.full.page = 1 THEN 1..MaxPages
                             ELSE {hevyPass.full.pages}) :
                  /\ hevyPass' = [hevyPass EXCEPT !.full = Fetched(@, k, count)]
                  /\ last' = Did("fetchHevyWorkouts", "", "ok", hevyPass.full.page)
          ELSE /\ hevyPass' = [hevyPass EXCEPT !.full = AbortedPass(@)]
               /\ last' = Did("fullSync", "", res, hevyPass.full.page)
    /\ UNCHANGED <<rest, store, mirror, now, push, rpush, ppush, spent>>

\* one turn of "for (const workout of allWorkouts)", the workout being one of P
FullSyncStepOf(P) ==
    /\ hevyPass.full.pc = "run"
    /\ hevyPass.full.left > 0
    /\ \E p \in P :
          /\ UpsertWorkout(p)
          /\ last' = DidUpsertWorkout(p)
    /\ hevyPass' = [hevyPass EXCEPT !.full.left = @ - 1]
    /\ UNCHANGED <<rest, routineStore, exerciseProgress, syncState, mirror, now, push, rpush,
                   ppush, spent>>

FullSyncStep == FullSyncStepOf(WorkoutPayloads)

FullSyncFinish ==
    /\ hevyPass.full.pc = "run"
    /\ hevyPass.full.left = 0
    /\ now' = now + 1
    /\ syncState' = UpdateSyncStateOn(syncState, now')
    /\ hevyPass' = [hevyPass EXCEPT !.full = IdlePass]
    /\ last' = Did("fullSync", "", "done", hevyPass.full.total)
    /\ UNCHANGED <<rest, workoutStore, routineStore, exerciseProgress, nextId, mirror, push,
                   rpush, ppush, spent>>

\* the start of the handler, called through via (as the first step of
\* fullPipeline when pipeline is TRUE): the API key check, then
\* since = syncState?.lastEventTimestamp || "1970-01-01T00:00:00Z"
IncrementalSyncBegin(via, pipeline) ==
    /\ hevyPass.inc.pc = "idle"
    /\ spent.hevy < MaxHevyPasses
    /\ IF ApiKeyPresent
       THEN /\ hevyPass' = [hevyPass EXCEPT !.inc =
                               [IdlePass EXCEPT !.pc = "fetch", !.page = 1,
                                                !.pipeline = pipeline,
                                                !.since = IF IsSome(syncState)
                                                             /\ Truthy(Val(syncState).lastEventTimestamp)
                                                          THEN Val(Val(syncState).lastEventTimestamp)
                                                          ELSE EpochStart]]
            /\ last' = Did("incrementalSyncStart", via, "", 0)
       ELSE /\ UNCHANGED hevyPass
            /\ last' = Did("incrementalSync", via, "not configured", 0)
    /\ spent' = [spent EXCEPT !.hevy = @ + 1]
    /\ UNCHANGED <<rest, store, mirror, now, push, rpush, ppush>>

\* the cron job "sync-hevy-to-convex", or a client calling the action
IncrementalSyncStart == IncrementalSyncBegin("", FALSE)

\* fetchHevyEvents(apiKey, since, page, 10): the first page, then pages 2..page_count
IncrementalSyncFetch ==
    /\ hevyPass.inc.pc = "fetch"
    /\ \E res \in FetchOutcomes :
          IF res = "ok"
          THEN \E k \in 0..(MaxItems - hevyPass.inc.left),
                  count \in (IF hevyPass.inc.page = 1 THEN 1..MaxPages
                             ELSE {hevyPass.inc.pages}) :
                  /\ hevyPass' = [hevyPass EXCEPT !.inc = Fetched(@, k, count)]
                  /\ last' = Did("fetchHevyEvents", "", "ok", hevyPass.inc.page)
          ELSE /\ hevyPass' = [hevyPass EXCEPT !.inc = AbortedPass(@)]
               /\ last' = Did("incrementalSync", "", res, hevyPass.inc.page)
    /\ UNCHANGED <<rest, store, mirror, now, push, rpush, ppush, spent>>

IncrementalSyncStep ==
    /\ hevyPass.inc.pc = "run"
    /\ hevyPass.inc.left > 0
    /\ \E ev \in HevyEvents :
          \/ /\ ev.type = "updated" /\ IsSome(ev.workout)
             /\ UpsertWorkout(Val(ev.workout))
             /\ hevyPass' = [hevyPass EXCEPT !.inc.left = @ - 1, !.inc.updated = @ + 1]
             /\ last' = DidUpsertWorkout(Val(ev.workout))
          \/ /\ ev.type = "deleted" /\ IsSome(ev.id)
             /\ MarkWorkoutDeleted(Val(ev.id))
             /\ hevyPass' = [hevyPass EXCEPT !.inc.left = @ - 1, !.inc.deleted = @ + 1]
             /\ last' = Did("markWorkoutDeleted", Val(ev.id),
                            IF IsSome(ExistingWorkout(workouts, Val(ev.id)))
                            THEN "found" ELSE "absent", 0)
    /\ UNCHANGED <<rest, routineStore, exerciseProgress, syncState, mirror, now, push, rpush,
                   ppush, spent>>

IncrementalSyncFinish ==
    /\ hevyPass.inc.pc = "run"
    /\ hevyPass.inc.left = 0
    /\ now' = now + 1
    /\ syncState' = UpdateSyncStateOn(syncState, now')
    /\ hevyPass' = [hevyPass EXCEPT !.inc = IF @.pipeline
                                             THEN [IdlePass EXCEPT !.pc = "returned"]
                                             ELSE IdlePass]
    /\ last' = Did("incrementalSync", "", "done", hevyPass.inc.total)
    /\ UNCHANGED <<rest, workoutStore, routineStore, exerciseProgress, nextId, mirror, push,
                   rpush, ppush, spent>>


-----------------------------------------------------------------------------
(* An incrementalSync pass that stops part-way, followed by the next pass.   *)
(* A mutation that throws, or the action running out of time, ends the pass  *)
(* before updateSyncState; the cursor is as it was, so the next pass is      *)
(* handed the same events again, from the first one.                         *)

\* the event lists GET /workouts/events returns for one cursor
EventLists == UNION {[1..n -> HevyEvents] : n \in 1..MaxEvents}

\* the body of "for (const event of allEvents)" on the workout tables st
ApplyEventOn(st, ev) ==
    IF ev.type = "updated" /\ IsSome(ev.workout)
    THEN LET r == UpsertWorkoutOn(st.workouts, st.exercises, st.sets, st.nextId,
                                  Val(ev.workout))
         IN [workouts |-> r.workouts, exercises |-> r.exercises, sets |-> r.sets,
             nextId |-> r.nextId]
    ELSE IF ev.type = "deleted" /\ IsSome(ev.id)
    THEN [st EXCEPT !.workouts = MarkWorkoutDeletedOn(@, Val(ev.id))]
    ELSE st

\* (a variant in which the stopped pass had moved the cursor past an event
\* it did not apply)
ResumedPast(cut) == cut + 2
\* the next pass starts at the first event of the list
RestartedAt(cut) == 1

\* events: the list both passes are handed; cut: how many of them the first
\* pass applies before it stops; pos: the next event; base: the workout
\* tables the first pass started on
NoRedelivery == [pc |-> "idle", events |-> <<>>, cut |-> 0, pos |-> 0,
                 base |-> [workouts |-> {}, exercises |-> {}, sets |-> {}, nextId |-> 1]]

RedeliveredPassStart ==
    /\ redelivery.pc = "idle"
    /\ ApiKeyPresent
    /\ \E evs \in EventLists, cut \in 0..MaxEvents :
          /\ cut <= Len(evs)
          /\ redelivery' = [pc |-> "first", events |-> evs, cut |-> cut, pos |-> 1,
                            base |-> [workouts |-> workouts, exercises |-> exercises,
                                      sets |-> sets, nextId |-> nextId]]
    /\ last' = Did("incrementalSyncStart", "redelivery", "", 0)
    /\ UNCHANGED <<env, batch, feed, store, mirror, now, hevyPass, push, rpush, ppush, spent>>

\* one event of either pass
RedeliveredPassStep ==
    /\ redelivery.pc \in {"first", "second"}
    /\ redelivery.pos <= (IF redelivery.pc = "first" THEN redelivery.cut
                          ELSE Len(redelivery.events))
    /\ LET r == ApplyEventOn([workouts |-> workouts, exercises |-> exercises,
                              sets |-> sets, nextId |-> nextId],
                             redelivery.events[redelivery.pos])
       IN /\ workouts' = r.workouts
          /\ exercises' = r.exercises
          /\ sets' = r.sets
          /\ nextId' = r.nextId
    /\ redelivery' = [redelivery EXCEPT !.pos = @ + 1]
    /\ last' = Did("applyEvent", redelivery.pc, "", redelivery.pos)
    /\ UNCHANGED <<env, batch, feed, routineStore, exerciseProgress, syncState, mirror, now,
                   hevyPass, push, rpush, ppush, spent>>

\* the first pass stops after cut events: nothing is written, the next pass
\* starts
RedeliveredPassStop ==
    /\ redelivery.pc = "first"
    /\ redelivery.pos = redelivery.cut + 1
    /\ redelivery' = [redelivery EXCEPT !.pc = "second", !.pos = RestartedAt(redelivery.cut)]
    /\ last' = Did("incrementalSync", "redelivery", "stopped", redelivery.cut)
    /\ UNCHANGED <<env, batch, feed, store, mirror, now, hevyPass, push, rpush, ppush, spent>>

\* the second pass has applied every event: updateSyncState
RedeliveredPassFinish ==
    /\ redelivery.pc = "second"
    /\ redelivery.pos > Len(redelivery.events)
    /\ now' = now + 1
    /\ syncState' = UpdateSyncStateOn(syncState, now')
    /\ redelivery' = [redelivery EXCEPT !.pc = "done"]
    /\ last' = Did("incrementalSync", "redelivery", "done", Len(redelivery.events))
    /\ UNCHANGED <<env, batch, feed, workoutStore, routineStore, exerciseProgress, nextId, mirror,
                   hevyPass, push, rpush, ppush, spent>>

-----------------------------------------------------------------------------
(* incrementalSync against the source's event log.  The source stamps every  *)
(* event with the time it logs it; GET /workouts/events?since=t returns the  *)
(* events logged after t.  The clock is shared: every reading is later than  *)
(* the one before.                                                           *)

\* log: the events with their times; since: the cursor the running pass read;
\* queue: allEvents (or allWorkouts), as positions of the log; applied: the
\* positions some pass has applied; reads: the cursors the passes have read;
\* kind, from: the pass that runs or ran last and the clock when it started;
\* fetched: the positions it was handed; trail: the passes that completed
NoFeed == [log |-> <<>>, pc |-> "idle", since |-> EpochStart, queue |-> <<>>,
           applied |-> {}, reads |-> {}, kind |-> "none", from |-> 0,
           fetched |-> {}, trail |-> <<>>]

\* the positions of the events the source holds for a cursor, oldest first
EventsSince(log, since) ==
    SelectSeq([i \in 1..Len(log) |-> i], LAMBDA i : log[i].time > since)

\* the orders in which a response can list the items q
ListingOrders(q) ==
    {o \in [1..Len(q) -> {q[i] : i \in 1..Len(q)}] :
        \A i, j \in 1..Len(q) : i # j => o[i] # o[j]}

\* the last event the source logged for a workout (0: none)
LatestEvent(log, hevyId) ==
    Max({0} \cup {i \in 1..Len(log) :
                     \/ log[i].ev.id = Some(hevyId)
                     \/ /\ IsSome(log[i].ev.workout)
                        /\ Val(log[i].ev.workout).id = hevyId})

\* the workouts GET /workouts lists: those the source still holds, each as
\* its last edit left it (as positions of the log)
LiveWorkouts(log) ==
    SelectSeq([i \in 1..Len(log) |-> i],
              LAMBDA i : /\ log[i].ev.type = "updated"
                         /\ LatestEvent(log, Val(log[i].ev.workout).id) = i)

\* the source logs an event: a workout was created, edited or deleted
SourceLogsEvent ==
    /\ Len(feed.log) < MaxFeed
    /\ now' = now + 1
    /\ \E ev \in HevyEvents :
          /\ feed' = [feed EXCEPT !.log = Append(@, [time |-> now', ev |-> ev])]
          /\ last' = Did("hevyEvent", ev.type, "", now')
    /\ UNCHANGED <<env, batch, redelivery, store, mirror, hevyPass, push, rpush, ppush, spent>>

\* const since = syncState?.lastEventTimestamp || "1970-01-01T00:00:00Z"
FeedPassStart ==
    /\ feed.pc = "idle"
    /\ ApiKeyPresent
    /\ spent.hevy < MaxHevyPasses
    /\ Len(feed.trail) < MaxFeedPasses
    /\ LET since == IF IsSome(syncState) /\ Truthy(Val(syncState).lastEventTimestamp)
                    THEN Val(Val(syncState).lastEventTimestamp) ELSE EpochStart
       IN feed' = [feed EXCEPT !.pc = "fetch", !.since = since, !.reads = @ \cup {since},
                               !.kind = "incremental", !.from = now]
    /\ spent' = [spent EXCEPT !.hevy = @ + 1]
    /\ last' = Did("incrementalSyncStart", "feed", "", 0)
    /\ UNCHANGED <<env, batch, redelivery, store, mirror, now, hevyPass, push, rpush, ppush>>

\* fetchHevyEvents(apiKey, since, ...): the events logged after the cursor,
\* in the order the source lists them
FeedPassFetch ==
    /\ feed.pc = "fetch"
    /\ feed.kind = "incremental"
    /\ \E q \in ListingOrders(EventsSince(feed.log, feed.since)) :
          feed' = [feed EXCEPT !.pc = "run", !.queue = q,
                               !.fetched = {q[i] : i \in 1..Len(q)}]
    /\ last' = Did("fetchHevyEvents", "feed", "ok", Len(EventsSince(feed.log, feed.since)))
    /\ UNCHANGED <<env, batch, redelivery, store, mirror, now, hevyPass, push, rpush, ppush,
                   spent>>

\* fullSync: no cursor is read
FeedFullStart ==
    /\ feed.pc = "idle"
    /\ ApiKeyPresent
    /\ Len(feed.trail) < MaxFeedPasses
    /\ feed' = [feed EXCEPT !.pc = "fetch", !.kind = "full", !.from = now]
    /\ last' = Did("fullSyncStart", "feed", "", 0)
    /\ UNCHANGED <<env, batch, redelivery, store, mirror, now, hevyPass, push, rpush, ppush,
                   spent>>

\* fetchHevyWorkouts(apiKey, page, 10), every page: the workouts the source holds
FeedFullFetch ==
    /\ feed.pc = "fetch"
    /\ feed.kind = "full"
    /\ LET q == LiveWorkouts(feed.log)
       IN /\ feed' = [feed EXCEPT !.pc = "run", !.queue = q,
                                  !.fetched = {q[i] : i \in 1..Len(q)}]
          /\ last' = Did("fetchHevyWorkouts", "feed", "ok", Len(q))
    /\ UNCHANGED <<env, batch, redelivery, store, mirror, now, hevyPass, push, rpush, ppush,
                   spent>>

\* one turn of "for (const event of allEvents)", or of "for (const workout of
\* allWorkouts)": the event at the head is an update there
FeedPassStep ==
    /\ feed.pc = "run"
    /\ feed.queue # <<>>
    /\ LET r == ApplyEventOn([workouts |-> workouts, exercises |-> exercises,
                              sets |-> sets, nextId |-> nextId],
                             feed.log[Head(feed.queue)].ev)
       IN /\ workouts' = r.workouts
          /\ exercises' = r.exercises
          /\ sets' = r.sets
          /\ nextId' = r.nextId
    /\ feed' = [feed EXCEPT !.queue = Tail(@), !.applied = @ \cup {Head(feed.queue)}]
    /\ last' = Did("applyEvent", "feed", "", Head(feed.queue))
    /\ UNCHANGED <<env, batch, redelivery, routineStore, exerciseProgress, syncState, mirror,
                   now, hevyPass, push, rpush, ppush, spent>>

\* updateSyncState({lastSyncedAt: now, lastEventTimestamp: now}), which ends
\* either pass
FeedPassFinish ==
    /\ feed.pc = "run"
    /\ feed.queue = <<>>
    /\ now' = now + 1
    /\ syncState' = UpdateSyncStateOn(syncState, now')
    /\ feed' = [feed EXCEPT !.pc = "idle",
                            !.trail = Append(@, [kind |-> feed.kind, from |-> feed.from,
                                                 to |-> now'])]
    /\ last' = Did(feed.kind, "feed", "done", Cardinality(feed.applied))
    /\ UNCHANGED <<env, batch, redelivery, workoutStore, routineStore, exerciseProgress,
                   nextId, mirror, hevyPass, push, rpush, ppush, spent>>

-----------------------------------------------------------------------------
(* The mirror (Notion) and syncToNotion (convex/notion.ts).                  *)
(* A page: its id, its database, the natural key and number it carries in    *)
(* its properties, the page its relation names, whether it is archived, and  *)
(* its numeric properties.                                                   *)

Page(id, db, key, num, parent, props) ==
    [id |-> id, db |-> db, key |-> key, num |-> num, parent |-> parent,
     archived |-> FALSE, props |-> props]

\* { number: x || null }
OrNull(o) == IF Truthy(o) THEN o ELSE None

\* POST /databases/{id}/query with an equals filter: the pages of the database
\* that carry the key (an archived page is not returned by a query)
QueryDatabase(P, db, key) == {pg \in P : pg.db = db /\ pg.key = key /\ ~pg.archived}

\* PATCH /pages/{id} {archived: true}
ArchivePage(P, id) == {IF pg.id = id THEN [pg EXCEPT !.archived = TRUE] ELSE pg : pg \in P}

\* PATCH /pages/{id} {properties}
UpdatePage(P, id, key, props) ==
    {IF pg.id = id THEN [pg EXCEPT !.key = key, !.props = props] ELSE pg : pg \in P}

\* workoutProps: Duration, Volume, Total Sets, Total Reps (each x || null), Date
WorkoutProps(w) ==
    << OrNull(w.durationMinutes), OrNull(Some(w.totalVolume)), OrNull(Some(w.totalSets)),
       OrNull(Some(w.totalReps)), Some(w.startTime \div 86400000) >>

\* exerciseProps: Set Count, Total Volume (kg) = Math.round(exerciseVolume * 10) / 10
ExerciseVolume(ss) ==
    SumSeq([i \in 1..Len(ss) |->
              IF Truthy(ss[i].weightKg) /\ Truthy(ss[i].reps)
              THEN Val(ss[i].weightKg) * Val(ss[i].reps) ELSE 0])
ExerciseProps(ss) == << Some(Len(ss)), Some(RoundDiv(ExerciseVolume(ss), 10)) >>

\* setProps: Weight, Reps (each x || null), Volume (rounded, or null)
SetProps(st) ==
    << OrNull(st.weightKg), OrNull(st.reps),
       IF Truthy(st.weightKg) /\ Truthy(st.reps)
       THEN OrNull(Some(RoundDiv(Val(st.weightKg) * Val(st.reps), 10))) ELSE None >>

\* getWorkoutExercises, getExerciseSets: the live children of a workout
WorkoutExercises(E, workoutId) == ById({e \in E : e.workoutId = workoutId})
ExerciseSets(S, exerciseId) == ById({st \in S : st.exerciseId = exerciseId})

\* A mirror call of one workout's push: the request and, for a create, the page
Call(kind, target, page) == [kind |-> kind, target |-> target, page |-> page]

\* (a variant whose set pages relate to the workout page)
ExerciseCallsFlat(e, ss, workoutPageId, base) ==
    << Call("create", 0,
            Some(Page(base, "exercises", e.exerciseTemplateId, e.hevyExerciseIndex,
                      Some(workoutPageId), ExerciseProps(ss)))) >>
    \o [k \in 1..Len(ss) |->
          Call("create", 0,
               Some(Page(base + k, "sets", ss[k].setType, ss[k].setIndex,
                         Some(workoutPageId), SetProps(ss[k]))))]
\* the create calls of one exercise and its sets, the first new page id being base
ExerciseCalls(e, ss, workoutPageId, base) ==
    << Call("create", 0,
            Some(Page(base, "exercises", e.exerciseTemplateId, e.hevyExerciseIndex,
                      Some(workoutPageId), ExerciseProps(ss)))) >>
    \o [k \in 1..Len(ss) |->
          Call("create", 0,
               Some(Page(base + k, "sets", ss[k].setType, ss[k].setIndex, Some(base),
                         SetProps(ss[k]))))]

RECURSIVE ChildCalls(_, _, _, _)
ChildCalls(exs, S, workoutPageId, base) ==
    IF exs = <<>> THEN <<>>
    ELSE LET ss == ExerciseSets(S, Head(exs).id) IN
         ExerciseCalls(Head(exs), ss, workoutPageId, base)
         \o ChildCalls(Tail(exs), S, workoutPageId, base + 1 + Len(ss))

\* (a variant that never takes the archive branch)
IsArchiveCaseNever(w) == FALSE
\* "Handle deleted workouts": archive the page the record names
IsArchiveCase(w) == w.isDeleted /\ IsSome(w.notionPageId)

\* (a variant that does not use the search result)
ResolvePageIdLocalOnly(w, found) == w.notionPageId
\* the page syncToNotion writes to: the one the record names, else results[0]
\* of the search (found), else none
ResolvePageId(w, found) == IF IsSome(w.notionPageId) THEN w.notionPageId ELSE found

\* the mirror calls syncToNotion issues for the workout w it read, in order,
\* when every call succeeds; found is results[0] of the search (or None)
WorkoutCalls(w, found, E, S, base) ==
    IF IsArchiveCase(w)
    THEN << Call("archive", Val(w.notionPageId), None) >>
    ELSE LET pageId == ResolvePageId(w, found)
             search == IF IsSome(w.notionPageId) THEN <<>> ELSE << Call("query", 0, None) >>
             write == IF IsSome(pageId)
                      THEN << Call("update", Val(pageId), None) >>
                      ELSE << Call("create", 0,
                                   Some(Page(base, "workouts", w.hevyId, 0, None,
                                             WorkoutProps(w)))) >>
             wpid == IF IsSome(pageId) THEN Val(pageId) ELSE base
             cbase == IF IsSome(pageId) THEN base ELSE base + 1
         IN search \o write \o ChildCalls(WorkoutExercises(E, w.id), S, wpid, cbase)

\* the page id markWorkoutSynced is given
SyncedPageId(w, found, base) ==
    IF IsArchiveCase(w) THEN Val(w.notionPageId)
    ELSE IF IsSome(ResolvePageId(w, found)) THEN Val(ResolvePageId(w, found)) ELSE base

\* the mirror after the calls cs succeeded, for the workout w
RECURSIVE ApplyCalls(_, _, _)
ApplyCalls(P, cs, w) ==
    IF cs = <<>> THEN P
    ELSE LET c == Head(cs)
             P1 == CASE c.kind = "archive" -> ArchivePage(P, c.target)
                     [] c.kind = "update" -> UpdatePage(P, c.target, w.hevyId, WorkoutProps(w))
                     [] c.kind = "create" -> P \cup {Val(c.page)}
                     [] OTHER -> P
         IN ApplyCalls(P1, Tail(cs), w)

Creates(cs) == Cardinality({i \in 1..Len(cs) : cs[i].kind = "create"})

PassIds == {1, 2}
IdlePush == [pc |-> "idle", queue |-> <<>>, synced |-> 0, errors |-> 0, total |-> 0]

\* the end of one turn of the loop: syncedCount++ after markWorkoutSynced
PushSynced(ps) == [ps EXCEPT !.queue = Tail(@), !.synced = @ + 1]
\* (a variant of the catch block that loses the count)
PushFailedUncounted(ps) == [ps EXCEPT !.queue = Tail(@)]
\* the catch block: errorCount++, and the loop goes on to the next workout
PushFailed(ps) == [ps EXCEPT !.queue = Tail(@), !.errors = @ + 1]

\* const workouts = await ctx.runQuery(api.sync.getUnsyncedWorkouts)
SyncToNotionStart(k) ==
    /\ push[k].pc = "idle"
    /\ spent.push < MaxPushes
    /\ push' = [push EXCEPT ![k] = [IdlePush EXCEPT !.pc = "run",
                                                    !.queue = UnsyncedWorkouts(workouts),
                                                    !.total = Len(UnsyncedWorkouts(workouts))]]
    /\ spent' = [spent EXCEPT !.push = @ + 1]
    /\ last' = Did("syncToNotionStart", "", "", 0)
    /\ UNCHANGED <<rest, store, mirror, now, hevyPass, rpush, ppush>>

\* one turn of "for (const workout of workouts)": the try block of one workout.
\* ok is the number of mirror calls that succeed before one fails.
SyncToNotionStep(k) ==
    /\ push[k].pc = "run"
    /\ push[k].queue # <<>>
    /\ LET w == Head(push[k].queue)
           results == QueryDatabase(pages, "workouts", w.hevyId)
       IN \E found \in (IF results = {} \/ IsSome(w.notionPageId) \/ IsArchiveCase(w)
                        THEN {None} ELSE {Some(pg.id) : pg \in results}) :
          LET calls == WorkoutCalls(w, found, exercises, sets, nextPage) IN
          \E ok \in SucceedingCalls(Len(calls)) :
             LET done == SubSeq(calls, 1, ok) IN
             /\ pages' = ApplyCalls(pages, done, w)
             /\ nextPage' = nextPage + Creates(done)
             /\ IF ok = Len(calls)
                THEN /\ workouts' = MarkWorkoutSyncedOn(workouts, w.id,
                                                        SyncedPageId(w, found, nextPage))
                     /\ push' = [push EXCEPT ![k] = PushSynced(@)]
                     /\ last' = Did("syncWorkout", w.hevyId,
                                    IF IsArchiveCase(w) THEN "archived"
                                    ELSE IF IsSome(w.notionPageId) THEN "updated"
                                    ELSE IF IsSome(found) THEN "adopted"
                                    ELSE "created",
                                    Creates(done))
                ELSE /\ UNCHANGED workouts
                     /\ push' = [push EXCEPT ![k] = PushFailed(@)]
                     /\ last' = Did("syncWorkout", w.hevyId, "failed", Creates(done))
    /\ UNCHANGED <<rest, exercises, sets, routineStore, exerciseProgress, syncState, nextId, now,
                   hevyPass, rpush, ppush, spent>>

\* return {success, synced, errors, total}
SyncToNotionReturn(k) ==
    /\ push[k].pc = "run"
    /\ push[k].queue = <<>>
    /\ push' = [push EXCEPT ![k].pc = "idle"]
    /\ last' = Did("syncToNotion", "", "done", push[k].total)
    /\ UNCHANGED <<rest, store, mirror, now, hevyPass, rpush, ppush, spent>>


\* fullPipeline: incrementalSync has returned, syncToNotion is called next
FullPipelinePush ==
    /\ hevyPass.inc.pc = "returned"
    /\ push[1].pc = "idle"
    /\ hevyPass' = [hevyPass EXCEPT !.inc = IdlePass]
    /\ push' = [push EXCEPT ![1] = [IdlePush EXCEPT !.pc = "run",
                                                    !.queue = UnsyncedWorkouts(workouts),
                                                    !.total = Len(UnsyncedWorkouts(workouts))]]
    /\ spent' = [spent EXCEPT !.push = @ + 1]
    /\ last' = Did("syncToNotionStart", "fullPipeline", "", 0)
    /\ UNCHANGED <<rest, store, mirror, now, rpush, ppush>>

-----------------------------------------------------------------------------
(* batchProcess(items, processor, concurrency) of convex/notion.ts.  The     *)
(* items are numbered from 1; a processor call is in flight from the moment  *)
(* batch.map(processor) makes it until its promise settles.                  *)

\* i: the loop variable; inflight: the items whose call has not settled;
\* started: the items whose call was made; fulfilled, rejected: the items
\* whose call settled that way; results, errors: what the function returns,
\* the value of the call for item j being written j
IdleBatch == [pc |-> "idle", items |-> 0, concurrency |-> 1, i |-> 0,
              inflight |-> {}, started |-> {}, fulfilled |-> {}, rejected |-> {},
              results |-> <<>>, errors |-> 0]

\* (a variant whose slice is one item longer)
BatchSliceLong(b) == {j \in 1..b.items : b.i < j /\ j <= b.i + b.concurrency + 1}
\* items.slice(i, i + concurrency)
BatchSlice(b) == {j \in 1..b.items : b.i < j /\ j <= b.i + b.concurrency}

\* the members of a set of item numbers in item order
RECURSIVE InItemOrder(_)
InItemOrder(S) ==
    IF S = {} THEN <<>>
    ELSE LET j == CHOOSE x \in S : \A y \in S : x <= y IN << j >> \o InItemOrder(S \ {j})

\* (a variant that pushes the values of a batch last item first)
BatchValuesReversed(b) ==
    LET vs == InItemOrder(b.fulfilled \cap BatchSlice(b)) IN
    [k \in 1..Len(vs) |-> vs[Len(vs) + 1 - k]]
\* "for (const result of batchResults)": allSettled keeps the order of the
\* batch, so the values pushed are those of the fulfilled calls in item order
BatchValues(b) == InItemOrder(b.fulfilled \cap BatchSlice(b))
\* errors++ for every rejected call of the batch
BatchErrors(b) == Cardinality(b.rejected \cap BatchSlice(b))

BatchProcessStart ==
    /\ batch.pc = "idle"
    /\ \E n \in 0..MaxBatchItems, c \in 1..MaxConcurrency :
          batch' = [IdleBatch EXCEPT !.pc = "loop", !.items = n, !.concurrency = c]
    /\ last' = Did("batchProcessStart", "", "", 0)
    /\ UNCHANGED <<env, redelivery, feed, store, mirror, now, hevyPass, push, rpush, ppush, spent>>

\* batch.map(processor): the call for every item of the slice is made
BatchLaunch ==
    /\ batch.pc = "loop"
    /\ batch.i < batch.items
    /\ batch' = [batch EXCEPT !.pc = "await",
                              !.inflight = BatchSlice(batch),
                              !.started = @ \cup BatchSlice(batch)]
    /\ last' = Did("batchProcess", "", "launched", batch.i)
    /\ UNCHANGED <<env, redelivery, feed, store, mirror, now, hevyPass, push, rpush, ppush, spent>>

\* the promise of one call settles, fulfilled or rejected
BatchSettle ==
    /\ batch.pc = "await"
    /\ \E j \in batch.inflight, ok \in BOOLEAN :
          /\ batch' = [batch EXCEPT !.inflight = @ \ {j},
                                    !.fulfilled = IF ok THEN @ \cup {j} ELSE @,
                                    !.rejected = IF ok THEN @ ELSE @ \cup {j}]
          /\ last' = Did("processor", "", IF ok THEN "fulfilled" ELSE "rejected", j)
    /\ UNCHANGED <<env, redelivery, feed, store, mirror, now, hevyPass, push, rpush, ppush, spent>>

\* Promise.allSettled resolves: the values are pushed, the rejections
\* counted, i += concurrency
BatchCollect ==
    /\ batch.pc = "await"
    /\ batch.inflight = {}
    /\ batch' = [batch EXCEPT !.pc = "loop",
                              !.results = @ \o BatchValues(batch),
                              !.errors = @ + BatchErrors(batch),
                              !.i = @ + batch.concurrency]
    /\ last' = Did("batchProcess", "", "settled", batch.i)
    /\ UNCHANGED <<env, redelivery, feed, store, mirror, now, hevyPass, push, rpush, ppush, spent>>

\* return { results, errors }
BatchReturn ==
    /\ batch.pc = "loop"
    /\ batch.i >= batch.items
    /\ batch' = [batch EXCEPT !.pc = "idle"]
    /\ last' = Did("batchProcess", "", "done", batch.errors)
    /\ UNCHANGED <<env, redelivery, feed, store, mirror, now, hevyPass, push, rpush, ppush, spent>>

-----------------------------------------------------------------------------
(* The HTTP entry points POST /sync and POST /full-sync (convex/http.ts) *)

\* the Authorization header of a request: absent, one that is not
\* "Bearer <SYNC_WEBHOOK_SECRET>", and that one
AuthHeaders == {"none", "wrong", "bearer secret"}

\* if (expectedSecret && authHeader !== `Bearer ${expectedSecret}`)
Unauthorized(auth) == env.SYNC_WEBHOOK_SECRET /\ auth # "bearer secret"

\* return new Response("Unauthorized", { status: 401 })
Respond401(route, auth) ==
    /\ last' = Did(route, auth, "401", 0)
    /\ UNCHANGED <<rest, store, mirror, now, hevyPass, push, rpush, ppush, spent>>

\* POST /sync: with the three database ids in the body fullPipeline runs,
\* without them incrementalSync
PostSync ==
    \E auth \in AuthHeaders, withIds \in BOOLEAN :
       IF Unauthorized(auth)
       THEN Respond401("POST /sync", auth)
       ELSE IncrementalSyncBegin(auth, withIds)

\* POST /full-sync
PostFullSync ==
    \E auth \in AuthHeaders :
       IF Unauthorized(auth)
       THEN Respond401("POST /full-sync", auth)
       ELSE FullSyncBegin(auth)

-----------------------------------------------------------------------------
(* Titles are sequences of characters; the helpers of the routine upserts    *)
(* (convex/sync.ts): parseWeekNumber, parseDayNumber, detectDayType,         *)
(* detectExerciseRole, detectMuscleGroup.                                    *)

\* the lower-case form of each upper-case letter
LowerOf ==
    LET upper == << "A", "B", "C", "D", "E", "F", "G", "H", "I", "J", "K", "L", "M",
                    "N", "O", "P", "Q", "R", "S", "T", "U", "V", "W", "X", "Y", "Z" >>
        lower == << "a", "b", "c", "d", "e", "f", "g", "h", "i", "j", "k", "l", "m",
                    "n", "o", "p", "q", "r", "s", "t", "u", "v", "w", "x", "y", "z" >>
    IN [c \in {upper[i] : i \in 1..26} |-> lower[CHOOSE i \in 1..26 : upper[i] = c]]
\* the value of each decimal digit
DigitValueOf ==
    LET digits == << "0", "1", "2", "3", "4", "5", "6", "7", "8", "9" >>
    IN [c \in {digits[i] : i \in 1..10} |-> (CHOOSE i \in 1..10 : digits[i] = c) - 1]

LowerChar(c) == IF c \in DOMAIN LowerOf THEN LowerOf[c] ELSE c
\* title.toLowerCase()
ToLowerCase(t) == [i \in 1..Len(t) |-> LowerChar(t[i])]

IsDigit(c) == c \in DOMAIN DigitValueOf
DigitValue(c) == DigitValueOf[c]
\* \s
IsSpace(c) == c \in {" ", "\t", "\n"}

\* titleLower.includes(sub)
Includes(t, sub) ==
    \E i \in 1..(Len(t) - Len(sub) + 1) : \A k \in 1..Len(sub) : t[i + k - 1] = sub[k]

\* whether t holds sub at position i, ignoring case (the /i flag)
HasAt(t, i, sub) ==
    /\ i + Len(sub) - 1 <= Len(t)
    /\ \A k \in 1..Len(sub) : LowerChar(t[i + k - 1]) = sub[k]

\* \s* from position j: the position of the first character that is no space
RECURSIVE SkipSpaces(_, _)
SkipSpaces(t, j) == IF j <= Len(t) /\ IsSpace(t[j]) THEN SkipSpaces(t, j + 1) ELSE j

\* (\d+) from position j with parseInt(_, 10): the digits read so far are acc
RECURSIVE ReadDigits(_, _, _)
ReadDigits(t, j, acc) ==
    IF j <= Len(t) /\ IsDigit(t[j]) THEN ReadDigits(t, j + 1, acc * 10 + DigitValue(t[j]))
    ELSE acc

\* \s*(\d+) from position j: the number, or None when no digit follows the spaces
NumberAt(t, j) ==
    LET k == SkipSpaces(t, j) IN
    IF k <= Len(t) /\ IsDigit(t[k]) THEN Some(ReadDigits(t, k, 0)) ELSE None

\* title.match(/(?:a1|a2|...)\s*(\d+)/i): the capture of the leftmost match,
\* the alternatives tried in order at each position
RECURSIVE MatchAlts(_, _, _, _)
MatchAlts(t, i, alts, a) ==
    IF a > Len(alts) THEN None
    ELSE IF HasAt(t, i, alts[a]) /\ IsSome(NumberAt(t, i + Len(alts[a])))
         THEN NumberAt(t, i + Len(alts[a]))
         ELSE MatchAlts(t, i, alts, a + 1)

MatchAt(t, i, alts) == MatchAlts(t, i, alts, 1)

RECURSIVE MatchFrom(_, _, _)
MatchFrom(t, i, alts) ==
    IF i > Len(t) THEN None
    ELSE IF IsSome(MatchAt(t, i, alts)) THEN MatchAt(t, i, alts)
    ELSE MatchFrom(t, i + 1, alts)

MatchNumber(t, alts) == MatchFrom(t, 1, alts)

parseWeekNumber(title) == MatchNumber(title, << <<"w","e","e","k">>, <<"w">> >>)
parseDayNumber(title) == MatchNumber(title, << <<"d","a","y">>, <<"d">>, <<"#">> >>)

\* the first rule whose keyword the lower-cased title includes decides
DayTypeRules ==
    << << <<"s","q","u","a","t">>, "Squat" >>,
       << <<"b","e","n","c","h">>, "Bench" >>,
       << <<"d","e","a","d","l","i","f","t">>, "Deadlift" >>,
       << <<"p","r","e","s","s">>, "Press" >>,
       << <<"u","p","p","e","r">>, "Upper" >>,
       << <<"l","o","w","e","r">>, "Lower" >>,
       << <<"p","u","l","l">>, "Pull" >>,
       << <<"p","u","s","h">>, "Push" >> >>

RECURSIVE RuleFrom(_, _, _)
RuleFrom(lower, rules, i) ==
    IF i > Len(rules) THEN None
    ELSE IF Includes(lower, rules[i][1]) THEN Some(rules[i][2])
    ELSE RuleFrom(lower, rules, i + 1)

FirstRule(t, rules) == RuleFrom(ToLowerCase(t), rules, 1)

\* "press" counts only when the title holds no "bench": a title that holds
\* "bench" has been decided by the second rule already
detectDayType(title) == FirstRule(title, DayTypeRules)

AccessoryWords ==
    { <<"c","u","r","l">>, <<"e","x","t","e","n","s","i","o","n">>, <<"r","a","i","s","e">>,
      <<"f","l","y">>, <<"k","i","c","k","b","a","c","k">>, <<"c","a","l","f">>,
      <<"a","b"," ">>, <<"c","r","u","n","c","h">>, <<"p","l","a","n","k">> }

detectExerciseRole(index, title) ==
    IF index = 0 THEN "Main Lift"
    ELSE IF \E w \in AccessoryWords : Includes(ToLowerCase(title), w) THEN "Accessory"
    ELSE IF index = 1 \/ index = 2 THEN "Variation"
    ELSE "Accessory"

MuscleGroupRules ==
    << << <<"b","e","n","c","h">>, "Chest" >>, << <<"c","h","e","s","t">>, "Chest" >>,
       << <<"f","l","y">>, "Chest" >>, << <<"p","e","c">>, "Chest" >>,
       << <<"r","o","w">>, "Back" >>, << <<"p","u","l","l">>, "Back" >>,
       << <<"l","a","t">>, "Back" >>, << <<"b","a","c","k">>, "Back" >>,
       << <<"d","e","a","d","l","i","f","t">>, "Back" >>,
       << <<"s","h","o","u","l","d","e","r">>, "Shoulders" >>,
       << <<"p","r","e","s","s">>, "Shoulders" >>, << <<"r","a","i","s","e">>, "Shoulders" >>,
       << <<"d","e","l","t">>, "Shoulders" >>,
       << <<"s","q","u","a","t">>, "Legs" >>, << <<"l","e","g">>, "Legs" >>,
       << <<"q","u","a","d">>, "Legs" >>, << <<"h","a","m">>, "Legs" >>,
       << <<"g","l","u","t","e">>, "Legs" >>, << <<"l","u","n","g","e">>, "Legs" >>,
       << <<"c","a","l","f">>, "Legs" >>,
       << <<"c","u","r","l">>, "Biceps" >>, << <<"b","i","c","e","p">>, "Biceps" >>,
       << <<"t","r","i","c","e","p">>, "Triceps" >>,
       << <<"p","u","s","h","d","o","w","n">>, "Triceps" >>,
       << <<"e","x","t","e","n","s","i","o","n">>, "Triceps" >>,
       << <<"a","b">>, "Core" >>, << <<"c","o","r","e">>, "Core" >>,
       << <<"c","r","u","n","c","h">>, "Core" >>, << <<"p","l","a","n","k">>, "Core" >> >>

detectMuscleGroup(title) == FirstRule(title, MuscleGroupRules)

-----------------------------------------------------------------------------
(* Routine payloads (HevyRoutineFolder, HevyRoutine of convex/hevy.ts) and   *)
(* upsertRoutineFolder, upsertRoutine (convex/sync.ts)                       *)

HFolder(id, index, title) == [id |-> id, index |-> index, title |-> title, updated_at |-> 1]

HRoutineSet(i, type, w, r) ==
    [index |-> i, type |-> type, weight_kg |-> w, reps |-> r,
     distance_meters |-> None, duration_seconds |-> None]

HRoutineExercise(i, title, template, ss) ==
    [index |-> i, title |-> title, notes |-> "", exercise_template_id |-> template,
     superset_id |-> None, rest_seconds |-> Some(90), sets |-> ss]

HRoutine(id, title, folder, exs) ==
    [id |-> id, title |-> title, folder_id |-> folder, updated_at |-> 1, exercises |-> exs]

TitleWeek2 == << "S", "B", "S", " ", "W", "e", "e", "k", " ", "2" >>
TitleDeload == << "D", "e", "l", "o", "a", "d" >>
TitleDay3Bench == << "D", "a", "y", " ", "3", " ", "-", " ", "B", "e", "n", "c", "h" >>
TitleBenchPress == << "B", "e", "n", "c", "h", " ", "P", "r", "e", "s", "s" >>
TitleLegCurl == << "L", "e", "g", " ", "C", "u", "r", "l" >>
TitleSquat == << "S", "q", "u", "a", "t" >>

\* folder 1 as "SBS Week 2", and after it was renamed and moved at the source
FolderF1a == HFolder(1, 0, TitleWeek2)
FolderF1b == HFolder(1, 1, TitleDeload)
FolderPayloads == {FolderF1a, FolderF1b}

\* routine r1 of folder 1: two exercises
RoutineR1 ==
    HRoutine("r1", TitleDay3Bench, Some(1),
             << HRoutineExercise(0, TitleBenchPress, "t1", << HRoutineSet(0, "normal", None, Some(5)) >>),
                HRoutineExercise(1, TitleLegCurl, "t3", <<>>) >>)
\* routine r2 in no folder
RoutineR2 ==
    HRoutine("r2", TitleSquat, None,
             << HRoutineExercise(0, TitleSquat, "t2", << HRoutineSet(0, "normal", None, None) >>) >>)
RoutinePayloads == {RoutineR1, RoutineR2}

ExistingFolder(F, hevyId) == First({f \in F : f.hevyId = hevyId})

\* sortOrder = (weekNumber || 0) * 100 + folder.index
FolderData(folder) ==
    [hevyId |-> folder.id, title |-> folder.title, index |-> folder.index,
     weekNumber |-> parseWeekNumber(folder.title),
     sortOrder |-> OrZero(parseWeekNumber(folder.title)) * 100 + folder.index,
     updatedAt |-> folder.updated_at, syncedToNotion |-> FALSE]

\* ctx.db.patch(existing._id, data): the fields of data replace the document's
PatchFolder(f, d) ==
    [f EXCEPT !.hevyId = d.hevyId, !.title = d.title, !.index = d.index,
              !.weekNumber = d.weekNumber, !.sortOrder = d.sortOrder,
              !.updatedAt = d.updatedAt, !.syncedToNotion = d.syncedToNotion]

NewFolder(id, d) ==
    [id |-> id, hevyId |-> d.hevyId, title |-> d.title, index |-> d.index,
     weekNumber |-> d.weekNumber, sortOrder |-> d.sortOrder, updatedAt |-> d.updatedAt,
     syncedToNotion |-> d.syncedToNotion, notionPageId |-> None]

UpsertRoutineFolderOn(F, n, folder) ==
    LET existing == ExistingFolder(F, folder.id) IN
    IF IsSome(existing)
    THEN [routineFolders |-> (F \ {Val(existing)})
                             \cup {PatchFolder(Val(existing), FolderData(folder))},
          nextId |-> n]
    ELSE [routineFolders |-> F \cup {NewFolder(n, FolderData(folder))}, nextId |-> n + 1]

ExistingRoutine(R, hevyId) == First({r \in R : r.hevyId = hevyId})

\* (a variant that reads the week from the routine's own title)
FolderWeekNumberFromTitle(F, routine) == parseWeekNumber(routine.title)
\* "Look up the folder and get its week number": only when routine.folder_id is truthy
RoutineFolderOf(F, routine) ==
    IF Truthy(routine.folder_id) THEN ExistingFolder(F, Val(routine.folder_id)) ELSE None

FolderWeekNumber(F, routine) ==
    IF IsSome(RoutineFolderOf(F, routine)) THEN Val(RoutineFolderOf(F, routine)).weekNumber
    ELSE None

\* sortOrder = (folderWeekNumber || 0) * 100 + (dayNumber || 0)
RoutineSortOrder(week, day) == OrZero(week) * 100 + OrZero(day)

RoutineData(F, routine) ==
    [hevyId |-> routine.id,
     folderId |-> IF IsSome(RoutineFolderOf(F, routine))
                  THEN Some(Val(RoutineFolderOf(F, routine)).id) ELSE None,
     hevyFolderId |-> OrUndefined(routine.folder_id),
     title |-> routine.title,
     dayNumber |-> parseDayNumber(routine.title),
     weekNumber |-> FolderWeekNumber(F, routine),
     sortOrder |-> RoutineSortOrder(FolderWeekNumber(F, routine),
                                    parseDayNumber(routine.title)),
     dayType |-> detectDayType(routine.title),
     updatedAt |-> routine.updated_at,
     syncedToNotion |-> FALSE]

PatchRoutine(r, d) ==
    [r EXCEPT !.hevyId = d.hevyId, !.folderId = d.folderId, !.hevyFolderId = d.hevyFolderId,
              !.title = d.title, !.dayNumber = d.dayNumber, !.weekNumber = d.weekNumber,
              !.sortOrder = d.sortOrder, !.dayType = d.dayType, !.updatedAt = d.updatedAt,
              !.syncedToNotion = d.syncedToNotion]

NewRoutine(id, d) ==
    [id |-> id, hevyId |-> d.hevyId, folderId |-> d.folderId,
     hevyFolderId |-> d.hevyFolderId, title |-> d.title, dayNumber |-> d.dayNumber,
     weekNumber |-> d.weekNumber, sortOrder |-> d.sortOrder, dayType |-> d.dayType,
     updatedAt |-> d.updatedAt, syncedToNotion |-> d.syncedToNotion, notionPageId |-> None]

\* (a variant whose week factor is too small to keep the weeks apart)
GlobalSortOrderNarrow(week, day, exerciseOrder) ==
    OrZero(week) * 100 + OrZero(day) * 100 + exerciseOrder
\* globalSortOrder = (week || 0) * 10000 + (day || 0) * 100 + exerciseOrder
GlobalSortOrder(week, day, exerciseOrder) ==
    OrZero(week) * 10000 + OrZero(day) * 100 + exerciseOrder

NewRoutineExercises(F, routine, routineId, base) ==
    { LET e == routine.exercises[i] IN
      [id |-> base + ExerciseOffset(routine.exercises, i),
       routineId |-> routineId,
       index |-> e.index,
       exerciseTemplateId |-> e.exercise_template_id,
       title |-> e.title,
       notes |-> StrOrUndefined(e.notes),
       supersetId |-> OrUndefined(e.superset_id),
       restSeconds |-> OrUndefined(e.rest_seconds),
       targetSets |-> Len(e.sets),
       targetReps |-> IF Len(e.sets) > 0 THEN OrUndefined(e.sets[1].reps) ELSE None,
       targetWeightKg |-> None,
       weekNumber |-> FolderWeekNumber(F, routine),
       dayNumber |-> parseDayNumber(routine.title),
       exerciseOrder |-> e.index,
       globalSortOrder |-> GlobalSortOrder(FolderWeekNumber(F, routine),
                                           parseDayNumber(routine.title), e.index),
       exerciseRole |-> detectExerciseRole(e.index, e.title),
       muscleGroup |-> detectMuscleGroup(e.title),
       syncedToNotion |-> FALSE,
       notionPageId |-> None] : i \in 1..Len(routine.exercises) }

NewRoutineSets(routine, routineId, base) ==
    UNION { { LET st == routine.exercises[i].sets[k] IN
              [id |-> base + ExerciseOffset(routine.exercises, i) + k,
               routineExerciseId |-> base + ExerciseOffset(routine.exercises, i),
               routineId |-> routineId,
               index |-> st.index,
               setType |-> st.type,
               targetReps |-> OrUndefined(st.reps),
               targetWeightKg |-> OrUndefined(st.weight_kg),
               targetDistanceMeters |-> OrUndefined(st.distance_meters),
               targetDurationSeconds |-> OrUndefined(st.duration_seconds),
               syncedToNotion |-> FALSE] : k \in 1..Len(routine.exercises[i].sets) }
            : i \in 1..Len(routine.exercises) }

\* "Delete existing exercises and sets": the routineExercises of the routine
\* (by_routine) and, for each, its routineSets (by_routine_exercise)
StaleRoutineExercises(RE, routineId) == {e \in RE : e.routineId = routineId}
\* (a variant that deletes the exercises and leaves their sets)
StaleRoutineSetsKept(RS, exs) == {}
StaleRoutineSets(RS, exs) == {st \in RS : st.routineExerciseId \in {e.id : e \in exs}}

UpsertRoutineOn(F, R, RE, RS, n, routine) ==
    LET existing == ExistingRoutine(R, routine.id)
        children == Len(routine.exercises) + TotalSets(routine)
    IN
    IF IsSome(existing)
    THEN LET r == Val(existing)
             old == StaleRoutineExercises(RE, r.id)
         IN [routines |-> (R \ {r}) \cup {PatchRoutine(r, RoutineData(F, routine))},
             routineExercises |-> (RE \ old) \cup NewRoutineExercises(F, routine, r.id, n),
             routineSets |-> (RS \ StaleRoutineSets(RS, old))
                             \cup NewRoutineSets(routine, r.id, n),
             nextId |-> n + children]
    ELSE [routines |-> R \cup {NewRoutine(n, RoutineData(F, routine))},
          routineExercises |-> RE \cup NewRoutineExercises(F, routine, n, n + 1),
          routineSets |-> RS \cup NewRoutineSets(routine, n, n + 1),
          nextId |-> n + 1 + children]

\* markRoutineFolderSynced, markRoutineSynced, markRoutineExerciseSynced,
\* markExerciseProgressSynced: ctx.db.patch(id, {syncedToNotion: true, notionPageId})
MarkSyncedOn(T, id, pageId) ==
    { IF d.id = id THEN [d EXCEPT !.syncedToNotion = TRUE, !.notionPageId = Some(pageId)]
      ELSE d : d \in T }

-----------------------------------------------------------------------------
(* calculateAllExerciseProgress (convex/sync.ts).  Weights stay in           *)
(* hundredths of a kilogram; the rounded volumes and the 1RM are in tenths.  *)

\* the keys of exercisesByTemplate, in insertion order
RECURSIVE TemplatesOf(_, _)
TemplatesOf(exs, seen) ==
    IF exs = <<>> THEN <<>>
    ELSE IF Head(exs).exerciseTemplateId \in seen THEN TemplatesOf(Tail(exs), seen)
    ELSE << Head(exs).exerciseTemplateId >>
         \o TemplatesOf(Tail(exs), seen \cup {Head(exs).exerciseTemplateId})

WorkoutById(W, id) == First({w \in W : w.id = id})

\* the key exercises.sort compares: the workout's startTime, "" (below every
\* time) when the workout is missing
StartKey(W, e) ==
    IF IsSome(WorkoutById(W, e.workoutId)) THEN Val(WorkoutById(W, e.workoutId)).startTime
    ELSE -1

\* exercises.sort((a, b) => startB.localeCompare(startA)): most recent first,
\* equal keys keep their order
RECURSIVE InsertByStart(_, _, _)
InsertByStart(W, e, sorted) ==
    IF sorted = <<>> THEN << e >>
    ELSE IF StartKey(W, Head(sorted)) >= StartKey(W, e)
         THEN << Head(sorted) >> \o InsertByStart(W, e, Tail(sorted))
         ELSE << e >> \o sorted

RECURSIVE SortByStart(_, _, _)
SortByStart(W, exs, sorted) ==
    IF exs = <<>> THEN sorted
    ELSE SortByStart(W, Tail(exs), InsertByStart(W, Head(exs), sorted))

SessionVolume(ss) ==
    SumSeq([i \in 1..Len(ss) |-> OrZero(ss[i].weightKg) * OrZero(ss[i].reps)])

\* Brzycki: weight * (36 / (37 - reps)) as the fraction <<numerator, denominator>>,
\* for the sets with weight > 0 and 0 < reps < 37
Estimated1RMs(ss) ==
    { << OrZero(ss[i].weightKg) * 36, 37 - OrZero(ss[i].reps) >> :
        i \in {j \in 1..Len(ss) : /\ OrZero(ss[j].weightKg) > 0
                                  /\ OrZero(ss[j].reps) > 0
                                  /\ OrZero(ss[j].reps) < 37} }

FracMax(fs) == CHOOSE f \in fs : \A g \in fs : f[1] * g[2] >= g[1] * f[2]

WorkingSets(ss) == SelectSeq(ss, LAMBDA st : st.setType # "warmup")

ProgressStart ==
    [maxWeight |-> 0, maxReps |-> 0, maxVolume |-> 0, max1RM |-> <<0, 1>>,
     lastPerformedAt |-> None, lastWeight |-> None, lastReps |-> None, lastVolume |-> 0]

\* (a variant that looks for a working set in older sessions when the most
\* recent one has none)
ProgressTurnFallback(acc, e, W, S) ==
    IF ~IsSome(WorkoutById(W, e.workoutId)) THEN acc
    ELSE LET ss == ExerciseSets(S, e.id)
             vol == SessionVolume(ss)
             working == WorkingSets(ss)
             first == ~IsSome(acc.lastPerformedAt)
             unset == ~IsSome(acc.lastWeight) /\ ~IsSome(acc.lastReps)
         IN [maxWeight |-> Max({acc.maxWeight} \cup {OrZero(ss[i].weightKg) : i \in 1..Len(ss)}),
             maxReps |-> Max({acc.maxReps} \cup {OrZero(ss[i].reps) : i \in 1..Len(ss)}),
             maxVolume |-> Max({acc.maxVolume, vol}),
             max1RM |-> FracMax({acc.max1RM} \cup Estimated1RMs(ss)),
             lastPerformedAt |-> IF first THEN Some(Val(WorkoutById(W, e.workoutId)).startTime)
                                 ELSE acc.lastPerformedAt,
             lastWeight |-> IF unset /\ Len(working) > 0 THEN working[Len(working)].weightKg
                            ELSE acc.lastWeight,
             lastReps |-> IF unset /\ Len(working) > 0 THEN working[Len(working)].reps
                          ELSE acc.lastReps,
             lastVolume |-> IF first THEN vol ELSE acc.lastVolume]
\* one turn of "for (const exercise of sortedExercises)"
ProgressTurn(acc, e, W, S) ==
    IF ~IsSome(WorkoutById(W, e.workoutId)) THEN acc
    ELSE LET ss == ExerciseSets(S, e.id)
             vol == SessionVolume(ss)
             working == WorkingSets(ss)
             first == ~IsSome(acc.lastPerformedAt)
         IN [maxWeight |-> Max({acc.maxWeight} \cup {OrZero(ss[i].weightKg) : i \in 1..Len(ss)}),
             maxReps |-> Max({acc.maxReps} \cup {OrZero(ss[i].reps) : i \in 1..Len(ss)}),
             maxVolume |-> Max({acc.maxVolume, vol}),
             max1RM |-> FracMax({acc.max1RM} \cup Estimated1RMs(ss)),
             lastPerformedAt |-> IF first THEN Some(Val(WorkoutById(W, e.workoutId)).startTime)
                                 ELSE acc.lastPerformedAt,
             lastWeight |-> IF first /\ Len(working) > 0 THEN working[Len(working)].weightKg
                            ELSE acc.lastWeight,
             lastReps |-> IF first /\ Len(working) > 0 THEN working[Len(working)].reps
                          ELSE acc.lastReps,
             lastVolume |-> IF first THEN vol ELSE acc.lastVolume]

RECURSIVE ProgressLoop(_, _, _, _)
ProgressLoop(acc, exs, W, S) ==
    IF exs = <<>> THEN acc
    ELSE ProgressLoop(ProgressTurn(acc, Head(exs), W, S), Tail(exs), W, S)

\* Math.round((lastWeight * 1.025) * 2) / 2 when lastReps >= 10, else lastWeight
SuggestedWeight(lastWeight, lastReps) ==
    IF Truthy(lastWeight) /\ Truthy(lastReps)
    THEN IF Val(lastReps) >= 10 THEN Some(RoundDiv(Val(lastWeight) * 41, 2000) * 50)
         ELSE lastWeight
    ELSE None

ProgressionNote(lastWeight, lastReps) ==
    IF Truthy(lastWeight) /\ Truthy(lastReps)
    THEN IF Val(lastReps) >= 10 THEN Some(<< "increase by 2.5%", Val(lastReps) >>)
         ELSE IF Val(lastReps) >= 8 THEN Some(<< "maintain weight", Val(lastReps) >>)
         ELSE Some(<< "maintain or reduce", Val(lastReps) >>)
    ELSE None

\* progressData of one template
ProgressData(template, W, E, S, t) ==
    LET exs == SelectSeq(ById(E), LAMBDA e : e.exerciseTemplateId = template)
        acc == ProgressLoop(ProgressStart, SortByStart(W, exs, <<>>), W, S)
    IN [exerciseTemplateId |-> template,
        exerciseTitle |-> exs[1].title,
        lastPerformedAt |-> acc.lastPerformedAt,
        lastWeightKg |-> acc.lastWeight,
        lastReps |-> acc.lastReps,
        lastVolume |-> RoundDiv(acc.lastVolume, 10),
        maxWeightKg |-> IF acc.maxWeight > 0 THEN Some(acc.maxWeight) ELSE None,
        maxReps |-> IF acc.maxReps > 0 THEN Some(acc.maxReps) ELSE None,
        maxVolume |-> IF acc.maxVolume > 0 THEN Some(RoundDiv(acc.maxVolume, 10)) ELSE None,
        max1RM |-> IF acc.max1RM[1] > 0
                   THEN Some(RoundDiv(acc.max1RM[1], acc.max1RM[2] * 10)) ELSE None,
        suggestedWeightKg |-> SuggestedWeight(acc.lastWeight, acc.lastReps),
        progressionNote |-> ProgressionNote(acc.lastWeight, acc.lastReps),
        syncedToNotion |-> FALSE,
        updatedAt |-> t]

ExistingProgress(P, template) == First({r \in P : r.exerciseTemplateId = template})

\* ctx.db.patch(existingProgress._id, progressData)
PatchProgress(r, d) == d @@ [id |-> r.id, notionPageId |-> r.notionPageId]

NewProgress(id, d) == d @@ [id |-> id, notionPageId |-> None]

\* "Upsert progress record" of one template
UpsertProgressOn(P, n, d) ==
    LET existing == ExistingProgress(P, d.exerciseTemplateId) IN
    IF IsSome(existing)
    THEN [exerciseProgress |-> (P \ {Val(existing)}) \cup {PatchProgress(Val(existing), d)},
          nextId |-> n]
    ELSE [exerciseProgress |-> P \cup {NewProgress(n, d)}, nextId |-> n + 1]

\* "for (const [templateId, exercises] of exercisesByTemplate)"
RECURSIVE ProgressAll(_, _, _, _, _, _, _)
ProgressAll(templates, P, n, W, E, S, t) ==
    IF templates = <<>> THEN [exerciseProgress |-> P, nextId |-> n]
    ELSE LET r == UpsertProgressOn(P, n, ProgressData(Head(templates), W, E, S, t))
         IN ProgressAll(Tail(templates), r.exerciseProgress, r.nextId, W, E, S, t)

CalculateAllExerciseProgressOn(P, n, W, E, S, t) ==
    ProgressAll(TemplatesOf(ById(E), {}), P, n, W, E, S, t)

-----------------------------------------------------------------------------
(* syncRoutines with syncRoutineFolders (convex/hevy.ts), and the public     *)
(* mutation calculateAllExerciseProgress                                     *)

UpsertRoutineFolder(folder) ==
    LET r == UpsertRoutineFolderOn(routineFolders, nextId, folder) IN
    /\ routineFolders' = r.routineFolders
    /\ nextId' = r.nextId

UpsertRoutine(routine) ==
    LET r == UpsertRoutineOn(routineFolders, routines, routineExercises, routineSets,
                             nextId, routine) IN
    /\ routines' = r.routines
    /\ routineExercises' = r.routineExercises
    /\ routineSets' = r.routineSets
    /\ nextId' = r.nextId

CalculateAllExerciseProgress ==
    LET r == CalculateAllExerciseProgressOn(exerciseProgress, nextId, workouts, exercises,
                                            sets, now) IN
    /\ exerciseProgress' = r.exerciseProgress
    /\ nextId' = r.nextId

\* await ctx.runAction(internal.hevy.syncRoutineFolders): fetch the folders
SyncRoutinesStart ==
    /\ hevyPass.rout.pc = "idle"
    /\ spent.hevy < MaxHevyPasses
    /\ IF ApiKeyPresent
       THEN \E n \in 0..MaxItems :
               hevyPass' = [hevyPass EXCEPT !.rout = [IdlePass EXCEPT !.pc = "folders",
                                                                      !.left = n, !.total = n]]
       ELSE UNCHANGED hevyPass
    /\ spent' = [spent EXCEPT !.hevy = @ + 1]
    /\ last' = Did("syncRoutinesStart", "", IF ApiKeyPresent THEN "" ELSE "not configured", 0)
    /\ UNCHANGED <<rest, store, mirror, now, push, rpush, ppush>>

SyncRoutineFoldersStep ==
    /\ hevyPass.rout.pc = "folders"
    /\ hevyPass.rout.left > 0
    /\ \E folder \in FolderPayloads :
          /\ UpsertRoutineFolder(folder)
          /\ last' = [Did("upsertRoutineFolder", "", "", folder.id) EXCEPT !.p = Some(folder)]
    /\ hevyPass' = [hevyPass EXCEPT !.rout.left = @ - 1]
    /\ UNCHANGED <<rest, workoutStore, routines, routineExercises, routineSets, exerciseProgress,
                   syncState, mirror, now, push, rpush, ppush, spent>>

\* the folders are stored: fetch the routines
SyncRoutinesFetch ==
    /\ hevyPass.rout.pc = "folders"
    /\ hevyPass.rout.left = 0
    /\ \E n \in 0..MaxItems :
          hevyPass' = [hevyPass EXCEPT !.rout.pc = "routines", !.rout.left = n,
                                       !.rout.total = n]
    /\ last' = Did("syncRoutineFolders", "", "done", hevyPass.rout.total)
    /\ UNCHANGED <<rest, store, mirror, now, push, rpush, ppush, spent>>

\* what a step that applies upsertRoutine(routine) records: whether the
\* routine was stored before, and how many times in a row it has been applied
DidUpsertRoutine(routine) ==
    [op |-> "upsertRoutine", arg |-> routine.id,
     out |-> IF IsSome(ExistingRoutine(routines, routine.id)) THEN "patched" ELSE "inserted",
     n |-> IF last.op = "upsertRoutine" /\ last.p = Some(routine) THEN last.n + 1 ELSE 1,
     p |-> Some(routine)]

SyncRoutinesStep ==
    /\ hevyPass.rout.pc = "routines"
    /\ hevyPass.rout.left > 0
    /\ \E routine \in RoutinePayloads :
          /\ UpsertRoutine(routine)
          /\ last' = DidUpsertRoutine(routine)
          /\ hevyPass' = [hevyPass EXCEPT !.rout.left = @ - 1,
                                          !.rout.upserted = @ \cup {routine.id}]
    /\ UNCHANGED <<rest, workoutStore, routineFolders, exerciseProgress, syncState, mirror, now,
                   push, rpush, ppush, spent>>

SyncRoutinesFinish ==
    /\ hevyPass.rout.pc = "routines"
    /\ hevyPass.rout.left = 0
    /\ hevyPass' = [hevyPass EXCEPT !.rout = IdlePass]
    /\ last' = Did("syncRoutines", "", "done", hevyPass.rout.total)
    /\ UNCHANGED <<rest, store, mirror, now, push, rpush, ppush, spent>>

CalculateProgress ==
    /\ spent.hevy < MaxHevyPasses
    /\ CalculateAllExerciseProgress
    /\ spent' = [spent EXCEPT !.hevy = @ + 1]
    /\ last' = Did("calculateAllExerciseProgress", "", "done", 0)
    /\ UNCHANGED <<rest, workoutStore, routineStore, syncState, mirror, now, hevyPass, push,
                   rpush, ppush>>

-----------------------------------------------------------------------------
(* syncRoutinesToNotion and syncExerciseProgress (convex/notion.ts).         *)
(* batchProcess hands every item of a list to the processor; the items of a  *)
(* group do not depend on each other, so they are taken in list order.       *)

\* getUnsyncedRoutineFolders
UnsyncedRoutineFolders(F) == ById({f \in F : ~f.syncedToNotion})
\* getRoutinesByFolder
RoutinesByFolder(R, folderId) == ById({r \in R : r.folderId = Some(folderId)})
\* getRoutineExercises
RoutineExercisesOf(RE, routineId) == ById({e \in RE : e.routineId = routineId})

\* "Week Number": folder.weekNumber || folder.index
FolderProps(f, rs) ==
    << Some(IF Truthy(f.weekNumber) THEN Val(f.weekNumber) ELSE f.index),
       Some(f.sortOrder), Some(Len(rs)) >>

RoutineTotalSets(exs) == SumSeq([i \in 1..Len(exs) |-> exs[i].targetSets])

RoutineProps(r, exs) ==
    << OrNull(r.weekNumber), OrNull(r.dayNumber), Some(r.sortOrder), Some(Len(exs)),
       Some(RoutineTotalSets(exs)) >>

\* the progression data a routine exercise page carries when progress exists
RoutineExerciseProps(e, progress) ==
    << OrNull(e.weekNumber), OrNull(e.dayNumber), Some(e.exerciseOrder),
       Some(e.globalSortOrder), Some(e.targetSets), OrNull(e.targetReps),
       IF IsSome(progress) THEN OrNull(Val(progress).lastWeightKg) ELSE None,
       IF IsSome(progress) THEN OrNull(Val(progress).suggestedWeightKg) ELSE None >>

ProgressProps(r) ==
    << OrNull(r.lastWeightKg), OrNull(r.lastReps), OrNull(Some(r.lastVolume)),
       OrNull(r.maxWeightKg), OrNull(r.maxReps), OrNull(r.maxVolume), OrNull(r.max1RM),
       OrNull(r.suggestedWeightKg) >>

\* (base: the id the first page created by the pass gets)
IdleRoutinePush ==
    [pc |-> "idle", queue |-> <<>>, results |-> <<>>, syncedFolders |-> 0,
     syncedRoutines |-> 0, syncedExercises |-> 0, errors |-> 0, base |-> 0]

SyncRoutinesToNotionStart ==
    /\ rpush.pc = "idle"
    /\ spent.push < MaxPushes
    /\ rpush' = [IdleRoutinePush EXCEPT !.pc = "folders",
                                        !.queue = UnsyncedRoutineFolders(routineFolders),
                                        !.base = nextPage]
    /\ spent' = [spent EXCEPT !.push = @ + 1]
    /\ last' = Did("syncRoutinesToNotionStart", "", "", 0)
    /\ UNCHANGED <<rest, store, mirror, now, hevyPass, push, ppush>>

\* Step 1, one folder: read its routines, create its page, mark it synced
PushFolderStep ==
    /\ rpush.pc = "folders"
    /\ rpush.queue # <<>>
    /\ LET f == Head(rpush.queue)
           rs == RoutinesByFolder(routines, f.id)
       IN \E ok \in RequestOutcomes :
          IF ok
          THEN /\ pages' = pages \cup {Page(nextPage, "programs", "", f.hevyId, None,
                                            FolderProps(f, rs))}
               /\ nextPage' = nextPage + 1
               /\ routineFolders' = MarkSyncedOn(routineFolders, f.id, nextPage)
               /\ rpush' = [rpush EXCEPT !.queue = Tail(@),
                                         !.results = Append(@, [pageId |-> nextPage,
                                                                items |-> rs]),
                                         !.syncedFolders = @ + 1]
               /\ last' = Did("pushFolder", "", "synced", f.hevyId)
          ELSE /\ UNCHANGED <<pages, nextPage, routineFolders>>
               /\ rpush' = [rpush EXCEPT !.queue = Tail(@), !.errors = @ + 1]
               /\ last' = Did("pushFolder", "", "failed", f.hevyId)
    /\ UNCHANGED <<rest, workoutStore, routines, routineExercises, routineSets, exerciseProgress,
                   syncState, nextId, now, hevyPass, push, ppush, spent>>

\* the items of the next step: each result's items with the result's page id
RECURSIVE WithPageId(_)
WithPageId(results) ==
    IF results = <<>> THEN <<>>
    ELSE [i \in 1..Len(Head(results).items) |->
            [item |-> Head(results).items[i], parentPageId |-> Head(results).pageId]]
         \o WithPageId(Tail(results))

\* Step 2 begins: allRoutineData, the exercises of each routine read now
PushRoutinesBegin ==
    /\ rpush.pc = "folders"
    /\ rpush.queue = <<>>
    /\ rpush' = [rpush EXCEPT
                   !.pc = "routines",
                   !.queue = [i \in 1..Len(WithPageId(rpush.results)) |->
                                [item |-> WithPageId(rpush.results)[i].item,
                                 parentPageId |-> WithPageId(rpush.results)[i].parentPageId,
                                 exercises |-> RoutineExercisesOf(
                                     routineExercises, WithPageId(rpush.results)[i].item.id)]],
                   !.results = <<>>]
    /\ last' = Did("pushFolders", "", "done", rpush.syncedFolders)
    /\ UNCHANGED <<rest, store, mirror, now, hevyPass, push, ppush, spent>>

PushRoutineStep ==
    /\ rpush.pc = "routines"
    /\ rpush.queue # <<>>
    /\ LET it == Head(rpush.queue) IN
       \E ok \in RequestOutcomes :
          IF ok
          THEN /\ pages' = pages \cup {Page(nextPage, "routines", it.item.hevyId, 0,
                                            Some(it.parentPageId),
                                            RoutineProps(it.item, it.exercises))}
               /\ nextPage' = nextPage + 1
               /\ routines' = MarkSyncedOn(routines, it.item.id, nextPage)
               /\ rpush' = [rpush EXCEPT !.queue = Tail(@),
                                         !.results = Append(@, [pageId |-> nextPage,
                                                                items |-> it.exercises]),
                                         !.syncedRoutines = @ + 1]
               /\ last' = Did("pushRoutine", it.item.hevyId, "synced", 0)
          ELSE /\ UNCHANGED <<pages, nextPage, routines>>
               /\ rpush' = [rpush EXCEPT !.queue = Tail(@), !.errors = @ + 1]
               /\ last' = Did("pushRoutine", it.item.hevyId, "failed", 0)
    /\ UNCHANGED <<rest, workoutStore, routineFolders, routineExercises, routineSets,
                   exerciseProgress, syncState, nextId, now, hevyPass, push, ppush, spent>>

\* Step 3 begins: allExerciseData
PushExercisesBegin ==
    /\ rpush.pc = "routines"
    /\ rpush.queue = <<>>
    /\ rpush' = [rpush EXCEPT !.pc = "exercises", !.queue = WithPageId(rpush.results),
                              !.results = <<>>]
    /\ last' = Did("pushRoutines", "", "done", rpush.syncedRoutines)
    /\ UNCHANGED <<rest, store, mirror, now, hevyPass, push, ppush, spent>>

\* one routine exercise: the page is created, then markRoutineExerciseSynced
\* patches the document, which throws when the document is gone
PushExerciseStep ==
    /\ rpush.pc = "exercises"
    /\ rpush.queue # <<>>
    /\ LET it == Head(rpush.queue)
           e == it.item
           progress == ExistingProgress(exerciseProgress, e.exerciseTemplateId)
           alive == \E d \in routineExercises : d.id = e.id
       IN \E ok \in RequestOutcomes :
          IF ok
          THEN /\ pages' = pages \cup {Page(nextPage, "routineExercises",
                                            e.exerciseTemplateId, e.exerciseOrder,
                                            Some(it.parentPageId),
                                            RoutineExerciseProps(e, progress))}
               /\ nextPage' = nextPage + 1
               /\ routineExercises' = MarkSyncedOn(routineExercises, e.id, nextPage)
               /\ rpush' = IF alive
                           THEN [rpush EXCEPT !.queue = Tail(@), !.syncedExercises = @ + 1]
                           ELSE [rpush EXCEPT !.queue = Tail(@), !.errors = @ + 1]
               /\ last' = Did("pushRoutineExercise", e.exerciseTemplateId,
                              IF alive THEN "synced" ELSE "failed", e.id)
          ELSE /\ UNCHANGED <<pages, nextPage, routineExercises>>
               /\ rpush' = [rpush EXCEPT !.queue = Tail(@), !.errors = @ + 1]
               /\ last' = Did("pushRoutineExercise", e.exerciseTemplateId, "failed", e.id)
    /\ UNCHANGED <<rest, workoutStore, routineFolders, routines, routineSets, exerciseProgress,
                   syncState, nextId, now, hevyPass, push, ppush, spent>>

SyncRoutinesToNotionReturn ==
    /\ rpush.pc = "exercises"
    /\ rpush.queue = <<>>
    /\ rpush' = [rpush EXCEPT !.pc = "idle"]
    /\ last' = Did("syncRoutinesToNotion", "", "done", rpush.errors)
    /\ UNCHANGED <<rest, store, mirror, now, hevyPass, push, ppush, spent>>

IdleProgressPush == [pc |-> "idle", queue |-> <<>>, synced |-> 0, errors |-> 0]

\* runMutation(calculateAllExerciseProgress), then getAllExerciseProgress
SyncExerciseProgressStart ==
    /\ ppush.pc = "idle"
    /\ spent.push < MaxPushes
    /\ CalculateAllExerciseProgress
    /\ ppush' = [IdleProgressPush EXCEPT !.pc = "run", !.queue = ById(exerciseProgress')]
    /\ spent' = [spent EXCEPT !.push = @ + 1]
    /\ last' = Did("syncExerciseProgressStart", "", "", 0)
    /\ UNCHANGED <<rest, workoutStore, routineStore, syncState, mirror, now, hevyPass, push, rpush>>

PushProgressStep ==
    /\ ppush.pc = "run"
    /\ ppush.queue # <<>>
    /\ LET r == Head(ppush.queue) IN
       \E ok \in RequestOutcomes :
          IF ok
          THEN /\ pages' = pages \cup {Page(nextPage, "exerciseProgress",
                                            r.exerciseTemplateId, 0, None, ProgressProps(r))}
               /\ nextPage' = nextPage + 1
               /\ exerciseProgress' = MarkSyncedOn(exerciseProgress, r.id, nextPage)
               /\ ppush' = [ppush EXCEPT !.queue = Tail(@), !.synced = @ + 1]
               /\ last' = Did("pushProgress", r.exerciseTemplateId, "synced", 0)
          ELSE /\ UNCHANGED <<pages, nextPage, exerciseProgress>>
               /\ ppush' = [ppush EXCEPT !.queue = Tail(@), !.errors = @ + 1]
               /\ last' = Did("pushProgress", r.exerciseTemplateId, "failed", 0)
    /\ UNCHANGED <<rest, workoutStore, routineStore, syncState, nextId, now, hevyPass, push,
                   rpush, spent>>

SyncExerciseProgressReturn ==
    /\ ppush.pc = "run"
    /\ ppush.queue = <<>>
    /\ ppush' = [ppush EXCEPT !.pc = "idle"]
    /\ last' = Did("syncExerciseProgress", "", "done", ppush.errors)
    /\ UNCHANGED <<rest, store, mirror, now, hevyPass, push, rpush, spent>>

-----------------------------------------------------------------------------

\* the deployment before any pass has run, with the settings e
\* the week, day and exercise index values the sort keys are computed from:
\* small ones, and those on either side of the factor 100
SortFieldValues == {0, 1, 2, SortRadix - 1, SortRadix}

\* upsertRoutine computes the keys of an exercise of a routine: the week t[1]
\* of its folder, its day t[2], the exercise index t[3]
SortKeysOf(t) ==
    [week |-> t[1], day |-> t[2], exerciseOrder |-> t[3],
     sortOrder |-> RoutineSortOrder(Some(t[1]), Some(t[2])),
     globalSortOrder |-> GlobalSortOrder(Some(t[1]), Some(t[2]), t[3])]

\* the keys of one pair of exercises, once in a run
ComputeSortKeys ==
    /\ last.op = "init"
    /\ \E a, b \in SortFieldValues \X SortFieldValues \X SortFieldValues :
          last' = [Did("sortKeys", "", "", 0) EXCEPT !.p = Some(<<SortKeysOf(a), SortKeysOf(b)>>)]
    /\ UNCHANGED <<rest, store, mirror, now, hevyPass, push, rpush, ppush, spent>>

Deployed(e) ==
    /\ env = e
    /\ batch = IdleBatch
    /\ redelivery = NoRedelivery
    /\ feed = NoFeed
    /\ workouts = {} /\ exercises = {} /\ sets = {}
    /\ routineFolders = {} /\ routines = {} /\ routineExercises = {} /\ routineSets = {}
    /\ exerciseProgress = {}
    /\ syncState = None
    /\ nextId = 1
    /\ pages = {} /\ nextPage = 1
    /\ now = 1
    /\ hevyPass = [full |-> IdlePass, inc |-> IdlePass, rout |-> IdlePass]
    /\ push = [k \in PassIds |-> IdlePush]
    /\ rpush = IdleRoutinePush
    /\ ppush = IdleProgressPush
    /\ spent = [hevy |-> 0, push |-> 0]
    /\ last = Did("init", "", "", 0)

Init == Deployed(Configured)

\* no pass is running
Quiet ==
    /\ hevyPass.full.pc = "idle" /\ hevyPass.inc.pc = "idle" /\ hevyPass.rout.pc = "idle"
    /\ \A k \in PassIds : push[k].pc = "idle"
    /\ rpush.pc = "idle" /\ ppush.pc = "idle"

\* the steps the passes of each record family take once they have started
WorkoutSourceSteps ==
    \/ FullSyncFetch \/ FullSyncStep \/ FullSyncFinish
    \/ IncrementalSyncFetch \/ IncrementalSyncStep \/ IncrementalSyncFinish

RoutineSourceSteps ==
    \/ SyncRoutineFoldersStep \/ SyncRoutinesFetch \/ SyncRoutinesStep \/ SyncRoutinesFinish

WorkoutMirrorSteps == SyncToNotionStep(1) \/ SyncToNotionReturn(1)

RoutineMirrorSteps ==
    \/ PushFolderStep \/ PushRoutinesBegin \/ PushRoutineStep \/ PushExercisesBegin
    \/ PushExerciseStep \/ SyncRoutinesToNotionReturn

ProgressMirrorSteps == PushProgressStep \/ SyncExerciseProgressReturn

\* a new pass may start: none is running, and fewer than MaxPasses have run
Ready == Quiet /\ spent.hevy + spent.push < MaxPasses

\* The whole program, its passes run one after the other: the cron job and
\* the HTTP entry points are not invoked while a pass is running
Next ==
    \/ Ready /\ FullSyncStart
    \/ Ready /\ IncrementalSyncStart
    \/ Ready /\ SyncRoutinesStart
    \/ Ready /\ CalculateProgress
    \/ Ready /\ SyncToNotionStart(1)
    \/ Ready /\ SyncRoutinesToNotionStart
    \/ Ready /\ SyncExerciseProgressStart
    \/ WorkoutSourceSteps \/ RoutineSourceSteps
    \/ WorkoutMirrorSteps \/ RoutineMirrorSteps \/ ProgressMirrorSteps

Spec == Init /\ [][Next]_vars

\* The workout family alone: fullSync, incrementalSync and syncToNotion
NextWorkouts ==
    \/ Quiet /\ FullSyncStart
    \/ Quiet /\ IncrementalSyncStart
    \/ Quiet /\ SyncToNotionStart(1)
    \/ WorkoutSourceSteps \/ WorkoutMirrorSteps

SpecWorkouts == Init /\ [][NextWorkouts]_vars

\* The routine and progress families: syncRoutines, fullSync (the progress
\* aggregates are computed from the stored workouts), syncRoutinesToNotion
\* and syncExerciseProgress
NextRoutines ==
    \/ Quiet /\ SyncRoutinesStart
    \/ Quiet /\ FullSyncStart
    \/ Quiet /\ SyncRoutinesToNotionStart
    \/ Quiet /\ SyncExerciseProgressStart
    \/ FullSyncFetch \/ FullSyncStep \/ FullSyncFinish
    \/ RoutineSourceSteps \/ RoutineMirrorSteps \/ ProgressMirrorSteps

SpecRoutines == Init /\ [][NextRoutines]_vars

\* The local store under overlapping passes: a pass may start while others
\* run, and the mutations of the running passes interleave in any order
NextOverlap ==
    \/ FullSyncStart \/ IncrementalSyncStart \/ SyncRoutinesStart \/ CalculateProgress
    \/ WorkoutSourceSteps \/ RoutineSourceSteps

SpecOverlap == Init /\ [][NextOverlap]_vars

\* The workout family under overlapping passes: a source pass and two
\* syncToNotion calls (the cron job and a client) run at the same time, the
\* mutations and mirror calls of the three interleaved in any order
NextRace ==
    \/ spent.hevy = 0 /\ FullSyncStart
    \/ spent.hevy = 1 /\ hevyPass.full.pc = "idle" /\ IncrementalSyncStart
    \/ SyncToNotionStart(1) \/ SyncToNotionStart(2)
    \/ FullSyncFetch /\ hevyPass'.full.left <= MaxRaceItems
    \/ IncrementalSyncFetch /\ hevyPass'.inc.left <= MaxRaceItems
    \/ FullSyncStep \/ FullSyncFinish \/ IncrementalSyncStep \/ IncrementalSyncFinish
    \/ SyncToNotionStep(1) \/ SyncToNotionReturn(1)
    \/ SyncToNotionStep(2) \/ SyncToNotionReturn(2)

SpecRace == Init /\ [][NextRace]_vars

\* calculateAllExerciseProgress over a history of up to MaxItems sessions of
\* one exercise, stored by one fullSync pass
NextProgress ==
    \/ Quiet /\ spent.hevy = 0 /\ FullSyncStart
    \/ FullSyncFetch
    \/ FullSyncStepOf(ProgressPayloads)
    \/ FullSyncFinish
    \/ Quiet /\ CalculateProgress

SpecProgress == Init /\ [][NextProgress]_vars

\* incrementalSync passes, one after the other, while the source goes on
\* logging events
NextCursor ==
    \/ SourceLogsEvent
    \/ FeedPassStart \/ FeedPassFetch \/ FeedPassStep \/ FeedPassFinish

SpecCursor == Init /\ [][NextCursor]_vars

\* the sort keys of pairs of exercises
NextSortKeys == ComputeSortKeys

SpecSortKeys == Init /\ [][NextSortKeys]_vars

\* fullSync and incrementalSync passes, one after the other, in any order,
\* while the source goes on logging events
NextSource ==
    \/ SourceLogsEvent
    \/ FeedFullStart \/ FeedFullFetch
    \/ FeedPassStart \/ FeedPassFetch \/ FeedPassStep \/ FeedPassFinish

SpecSource == Init /\ [][NextSource]_vars

\* The workout family behind its entry points, in any deployment: the HTTP
\* routes, the cron job and a client calling syncToNotion
InitAnyEnv == \E e \in Envs : Deployed(e)

NextEntry ==
    \/ Ready /\ PostSync
    \/ Ready /\ PostFullSync
    \/ Ready /\ IncrementalSyncStart
    \/ Ready /\ SyncToNotionStart(1)
    \/ WorkoutSourceSteps \/ FullPipelinePush \/ WorkoutMirrorSteps

SpecEntry == InitAnyEnv /\ [][NextEntry]_vars

\* Redelivery: the store is filled by one fullSync pass and may be pushed to
\* the mirror; then an incrementalSync pass stops part-way and the next one
\* is handed the same events
NextRedelivery ==
    \/ Quiet /\ redelivery.pc = "idle" /\ spent.hevy = 0 /\ FullSyncStart
    \/ Quiet /\ redelivery.pc = "idle" /\ spent.push = 0 /\ SyncToNotionStart(1)
    \/ FullSyncFetch \/ FullSyncStep \/ FullSyncFinish
    \/ WorkoutMirrorSteps
    \/ Quiet /\ RedeliveredPassStart
    \/ RedeliveredPassStep \/ RedeliveredPassStop \/ RedeliveredPassFinish

SpecRedelivery == Init /\ [][NextRedelivery]_vars

\* The totals upsertWorkout stores: a fullSync pass that fetched one workout,
\* with any sets
NextStats ==
    \/ Quiet /\ spent.hevy = 0 /\ FullSyncStart
    \/ FullSyncFetch
    \/ hevyPass.full.total = 1 /\ FullSyncStepOf(StatPayloads)
    \/ FullSyncFinish

SpecStats == Init /\ [][NextStats]_vars

\* batchProcess alone, called again and again
NextBatch ==
    \/ BatchProcessStart \/ BatchLaunch \/ BatchSettle \/ BatchCollect \/ BatchReturn

SpecBatch == Init /\ [][NextBatch]_vars

-----------------------------------------------------------------------------
(* Properties                                                                *)

\* the stored workouts with a Hevy id, and their child rows
WorkoutsOf(W, hevyId) == {w \in W : w.hevyId = hevyId}
ExerciseRowsOf(E, W, hevyId) == {e \in E : \E w \in WorkoutsOf(W, hevyId) : e.workoutId = w.id}
SetRowsOf(S, W, hevyId) == {st \in S : \E w \in WorkoutsOf(W, hevyId) : st.workoutId = w.id}
\* the sets of a payload, as <<exercise position, set position>>
PayloadSets(p) ==
    UNION { {<<i, k>> : k \in 1..Len(p.exercises[i].sets)} : i \in 1..Len(p.exercises) }

\* C1: upsertWorkout is idempotent.  A step that applies upsertWorkout(p)
\* right after a step that applied the same p leaves exactly one workout with
\* hevyId = p.id, with the totalVolume, durationMinutes, totalSets and
\* totalReps it had after the first application, and as many exercise rows and
\* set rows for it as p has exercises and sets.
C1_UpsertWorkoutIdempotent ==
    [][ (last'.op = "upsertWorkout" /\ last'.n >= 2) =>
          LET p == Val(last'.p)
              before == WorkoutsOf(workouts, p.id)
              after == WorkoutsOf(workouts', p.id)
          IN /\ Cardinality(before) = 1
             /\ Cardinality(after) = 1
             /\ \A b \in before, a \in after :
                   /\ a.id = b.id
                   /\ a.totalVolume = b.totalVolume
                   /\ a.durationMinutes = b.durationMinutes
                   /\ a.totalSets = b.totalSets
                   /\ a.totalReps = b.totalReps
             /\ Cardinality(ExerciseRowsOf(exercises', workouts', p.id)) = Len(p.exercises)
             /\ Cardinality(SetRowsOf(sets', workouts', p.id)) = Cardinality(PayloadSets(p))
      ]_vars

\* C1 happens: PayloadW1a (one exercise, two sets) was applied twice in a row
C1_Witness ==
    /\ last.op = "upsertWorkout" /\ last.n = 2 /\ last.p = Some(PayloadW1a)
    /\ Cardinality(SetRowsOf(sets, workouts, "w1")) = 2

HevyIdUnique(T) == \A a \in T, b \in T : a.hevyId = b.hevyId => a = b

\* C2: natural keys are unique in every reachable state, the mutations of
\* overlapping passes interleaved: at most one workout per hevyId, one routine
\* folder per hevyId, one routine per hevyId and one exercise-progress record
\* per exerciseTemplateId.
C2_NaturalKeyUnique ==
    /\ HevyIdUnique(workouts)
    /\ HevyIdUnique(routineFolders)
    /\ HevyIdUnique(routines)
    /\ \A a \in exerciseProgress, b \in exerciseProgress :
          a.exerciseTemplateId = b.exerciseTemplateId => a = b

\* C2 happens: while fullSync and incrementalSync both run, an upsert has hit
\* a workout that was stored before
C2_Witness ==
    /\ hevyPass.full.pc = "run" /\ hevyPass.inc.pc = "run"
    /\ hevyPass.full.left < hevyPass.full.total
    /\ hevyPass.inc.left < hevyPass.inc.total
    /\ last.op = "upsertWorkout" /\ last.out = "patched"

\* C3: cascade replace.  After upsertWorkout(p) on a workout that exists, the
\* exercise rows of the workout are exactly p's exercises and its set rows
\* exactly p's sets, and every one of them was written by this step: no row
\* of an earlier payload remains.
C3_CascadeReplace ==
    [][ (last'.op = "upsertWorkout" /\ last'.out = "patched") =>
          LET p == Val(last'.p)
              exs == ExerciseRowsOf(exercises', workouts', p.id)
              sts == SetRowsOf(sets', workouts', p.id)
          IN /\ Cardinality(exs) = Len(p.exercises)
             /\ \A i \in 1..Len(p.exercises) :
                   \E e \in exs :
                      /\ e.hevyExerciseIndex = p.exercises[i].index
                      /\ e.exerciseTemplateId = p.exercises[i].exercise_template_id
                      /\ e.title = p.exercises[i].title
                      /\ Cardinality({st \in sts : st.exerciseId = e.id})
                            = Len(p.exercises[i].sets)
                      /\ \A k \in 1..Len(p.exercises[i].sets) :
                            \E st \in sts :
                               /\ st.exerciseId = e.id
                               /\ st.setIndex = p.exercises[i].sets[k].index
                               /\ st.setType = p.exercises[i].sets[k].type
                               /\ Truthy(p.exercises[i].sets[k].weight_kg)
                                     => st.weightKg = p.exercises[i].sets[k].weight_kg
                               /\ Truthy(p.exercises[i].sets[k].reps)
                                     => st.reps = p.exercises[i].sets[k].reps
             /\ Cardinality(sts) = Cardinality(PayloadSets(p))
             /\ \A e \in exs : e \notin exercises
             /\ \A st \in sts : st \notin sets /\ \E e \in exs : st.exerciseId = e.id
             /\ \A e \in exercises : \A w \in WorkoutsOf(workouts, p.id) :
                   e.workoutId = w.id => e \notin exercises'
             /\ \A st \in sets : \A w \in WorkoutsOf(workouts, p.id) :
                   st.workoutId = w.id => st \notin sets'
      ]_vars

\* C3 happens: w1 was stored from PayloadW1a (ids 1 to 4), then PayloadW1b
\* (another exercise, one set) replaced its children
C3_Witness ==
    /\ last.op = "upsertWorkout" /\ last.out = "patched" /\ last.p = Some(PayloadW1b)
    /\ nextId = 7
    /\ \A w \in workouts : w.hevyId = "w1" /\ w.id = 1

\* C4: markWorkoutDeleted on a stored workout sets isDeleted = true and
\* syncedToNotion = false on it and changes nothing else: not another field
\* of the workout, no exercise row, no set row, no other workout.
C4_MarkWorkoutDeletedFrame ==
    [][ (last'.op = "markWorkoutDeleted" /\ last'.out = "found") =>
          /\ \E w \in workouts :
                /\ w.hevyId = last'.arg
                /\ workouts' = (workouts \ {w})
                               \cup {[w EXCEPT !.isDeleted = TRUE, !.syncedToNotion = FALSE]}
          /\ exercises' = exercises
          /\ sets' = sets
      ]_vars

\* C4 happens: a workout that was mirrored, and has child rows, was tombstoned
C4_Witness ==
    /\ last.op = "markWorkoutDeleted" /\ last.out = "found"
    /\ \E w \in workouts :
          /\ w.hevyId = last.arg /\ w.isDeleted /\ ~w.syncedToNotion
          /\ IsSome(w.notionPageId)
          /\ \E e \in exercises : e.workoutId = w.id

\* C5: for a tombstoned, unsynced workout that names a mirror page, the step
\* of syncToNotion creates no page; when its call succeeds the page is
\* archived, the workout is synced and names the same page; when the call
\* fails nothing is written and the error is counted.
C5_TombstoneArchived ==
    [][ (/\ push[1].pc = "run" /\ push[1].queue # <<>>
         /\ last'.op = "syncWorkout"
         /\ Head(push[1].queue).isDeleted
         /\ ~Head(push[1].queue).syncedToNotion
         /\ IsSome(Head(push[1].queue).notionPageId)) =>
          LET w == Head(push[1].queue) IN
          /\ {pg.id : pg \in pages'} = {pg.id : pg \in pages}
          /\ nextPage' = nextPage
          /\ \/ /\ last'.out = "archived"
                /\ \E pg \in pages' : pg.id = Val(w.notionPageId) /\ pg.archived
                /\ \E v \in workouts' :
                      /\ v.id = w.id /\ v.syncedToNotion /\ v.isDeleted
                      /\ v.notionPageId = w.notionPageId
             \/ /\ last'.out = "failed"
                /\ pages' = pages /\ workouts' = workouts
                /\ push'[1].errors = push[1].errors + 1
      ]_vars

\* C5 happens: a pass has archived the page of a tombstoned workout
C5_Witness ==
    /\ last.op = "syncWorkout" /\ last.out = "archived"
    /\ \E w \in workouts :
          /\ w.hevyId = last.arg /\ w.isDeleted /\ w.syncedToNotion
          /\ \E pg \in pages : pg.id = Val(w.notionPageId) /\ pg.archived

\* C6: isDeleted = true is terminal until mirrored.  No step sets the
\* isDeleted of a tombstoned workout that has not been mirrored since
\* (syncedToNotion = false) back to false.
C6_TombstoneTerminal ==
    [][ \A w \in workouts : \A v \in workouts' :
          (w.isDeleted /\ ~w.syncedToNotion /\ v.id = w.id) => v.isDeleted
      ]_vars

\* the records of a table that a step turned from needing sync to synced
NewlySynced(T, T2) ==
    {d \in T2 : d.syncedToNotion /\ \A c \in T : c.id = d.id => ~c.syncedToNotion}
\* a live page of a mirror database is named by the record
NamesPage(d, P, db) ==
    IsSome(d.notionPageId) /\ \E pg \in P : pg.id = Val(d.notionPageId) /\ pg.db = db

\* C7: the needs-sync flag protocol.  Every local write (an upsert, a
\* tombstone, a progress aggregation) leaves the records it writes with
\* syncedToNotion = false, and a record's flag turns true only in the step of
\* a push pass whose mirror call for that very record succeeded, the record
\* then naming the page the call wrote.
C7_NeedsSyncProtocol ==
    [][ /\ last'.op = "upsertWorkout" =>
             \A w \in WorkoutsOf(workouts', last'.arg) : ~w.syncedToNotion
        /\ (last'.op = "markWorkoutDeleted" /\ last'.out = "found") =>
             /\ WorkoutsOf(workouts', last'.arg) # {}
             /\ \A w \in WorkoutsOf(workouts', last'.arg) : ~w.syncedToNotion
        /\ last'.op = "upsertRoutineFolder" =>
             /\ \E f \in routineFolders' : f.hevyId = last'.n
             /\ \A f \in routineFolders' : f.hevyId = last'.n => ~f.syncedToNotion
        /\ last'.op = "upsertRoutine" =>
             \A r \in routines' : r.hevyId = last'.arg =>
                /\ ~r.syncedToNotion
                /\ \A e \in routineExercises' : e.routineId = r.id => ~e.syncedToNotion
        /\ last'.op \in {"calculateAllExerciseProgress", "syncExerciseProgressStart"} =>
             \A r \in exerciseProgress' :
                (\E e \in exercises : e.exerciseTemplateId = r.exerciseTemplateId)
                   => ~r.syncedToNotion
        /\ \A w \in NewlySynced(workouts, workouts') :
              /\ last'.op = "syncWorkout" /\ last'.arg = w.hevyId
              /\ last'.out \in {"archived", "updated", "adopted", "created"}
              /\ NamesPage(w, pages', "workouts")
              /\ push[1].pc = "run" /\ Head(push[1].queue).id = w.id
        /\ \A f \in NewlySynced(routineFolders, routineFolders') :
              /\ last'.op = "pushFolder" /\ last'.n = f.hevyId /\ last'.out = "synced"
              /\ NamesPage(f, pages' \ pages, "programs")
        /\ \A r \in NewlySynced(routines, routines') :
              /\ last'.op = "pushRoutine" /\ last'.arg = r.hevyId /\ last'.out = "synced"
              /\ NamesPage(r, pages' \ pages, "routines")
        /\ \A e \in NewlySynced(routineExercises, routineExercises') :
              /\ last'.op = "pushRoutineExercise" /\ last'.n = e.id /\ last'.out = "synced"
              /\ NamesPage(e, pages' \ pages, "routineExercises")
        /\ \A r \in NewlySynced(exerciseProgress, exerciseProgress') :
              /\ last'.op = "pushProgress" /\ last'.arg = r.exerciseTemplateId
              /\ last'.out = "synced"
              /\ NamesPage(r, pages' \ pages, "exerciseProgress")
      ]_vars

\* C7 happens: a workout that a push had marked synced, naming its page, was
\* written again and needs sync once more
C7_Witness ==
    /\ last.op = "upsertWorkout" /\ last.out = "patched"
    /\ spent.push >= 1
    /\ \E w \in workouts :
          /\ w.hevyId = last.arg /\ ~w.syncedToNotion
          /\ NamesPage(w, pages, "workouts")

WorkoutPages(P, hevyId) == {pg \in P : pg.db = "workouts" /\ pg.key = hevyId}

\* C8: create-or-adopt for workouts.  When syncToNotion handles a workout
\* that names no page while the mirror holds a live workout page with its
\* Hevy ID, the step creates no workout page, and when it succeeds the
\* workout names a page the mirror held; and in every state the mirror holds
\* at most one workout page per hevyId.
C8_WorkoutCreateOrAdopt ==
    /\ [](\A h \in HevyIds : Cardinality(WorkoutPages(pages, h)) <= 1)
    /\ [][ (/\ push[1].pc = "run" /\ push[1].queue # <<>>
            /\ last'.op = "syncWorkout"
            /\ ~IsSome(Head(push[1].queue).notionPageId)
            /\ \E pg \in WorkoutPages(pages, Head(push[1].queue).hevyId) : ~pg.archived) =>
             LET w == Head(push[1].queue) IN
             /\ {pg.id : pg \in WorkoutPages(pages', w.hevyId)}
                   = {pg.id : pg \in WorkoutPages(pages, w.hevyId)}
             /\ last'.out \in {"adopted", "failed"}
             /\ last'.out = "adopted" =>
                   \E v \in workouts' :
                      /\ v.id = w.id /\ v.syncedToNotion
                      /\ \E pg \in WorkoutPages(pages, w.hevyId) :
                            v.notionPageId = Some(pg.id)
         ]_vars

\* C8 happens: a push failed after it had created the workout's page, and the
\* next pass adopted that page
C8_Witness ==
    /\ last.op = "syncWorkout" /\ last.out = "adopted"
    /\ spent.push = 2
    /\ \E w \in workouts : w.hevyId = last.arg /\ w.syncedToNotion
                           /\ Cardinality(WorkoutPages(pages, w.hevyId)) = 1

\* the natural key of the routine a routine-exercise page hangs under
RoutineKeyOf(pg, P) == {par.key : par \in {q \in P : Some(q.id) = pg.parent}}

\* C9: never a duplicate in the routine and progress families.  In every
\* state the mirror holds at most one page per routine folder, per routine,
\* per exercise of a routine, and per exercise-progress record.
C9_NoDuplicatePages ==
    \A a \in pages, b \in pages :
       (/\ a.db = b.db
        /\ a.db \in {"programs", "routines", "routineExercises", "exerciseProgress"}
        /\ a.key = b.key /\ a.num = b.num
        /\ a.db = "routineExercises" => RoutineKeyOf(a, pages) = RoutineKeyOf(b, pages))
         => a = b

\* C10: per-record failure isolation in syncToNotion.  A failed step leaves
\* the store as it was (the workout still needs sync), adds one to the error
\* counter, and moves on to the rest of the list, in which the failed workout
\* does not occur again; and the counts of a pass always add up:
\* synced + errors + workouts still to do = total, so synced + errors = total
\* when the pass returns.
C10_FailureIsolation ==
    /\ [](\A k \in PassIds :
             push[k].synced + push[k].errors + Len(push[k].queue) = push[k].total)
    /\ [][ (last'.op = "syncWorkout" /\ last'.out = "failed") =>
             LET w == Head(push[1].queue) IN
             /\ workouts' = workouts
             /\ \E v \in workouts' : v.id = w.id /\ ~v.syncedToNotion
             /\ push'[1].errors = push[1].errors + 1
             /\ push'[1].synced = push[1].synced
             /\ push'[1].queue = Tail(push[1].queue)
             /\ push'[1].pc = "run"
             /\ \A i \in 1..Len(push'[1].queue) : push'[1].queue[i].id # w.id
         ]_vars

\* C10 happens: a pass over two workouts returned after one failed and the
\* other, handled after it, was synced
C10_Witness ==
    /\ last.op = "syncToNotion" /\ last.out = "done" /\ last.n = 2
    /\ push[1].errors = 1 /\ push[1].synced = 1
    /\ \E w \in workouts, v \in workouts :
          w.id < v.id /\ ~w.syncedToNotion /\ v.syncedToNotion

\* C11: with the mirror access token absent, a syncToNotion pass that found an
\* unsynced workout fails with a configuration error: it does not return a
\* {synced, errors, total} result
C11_MissingTokenFails ==
    ~(/\ ~env.NOTION_TOKEN
      /\ last.op = "syncToNotion" /\ last.out = "done"
      /\ last.n > 0)

\* C12: with the source API key absent, fullSync and incrementalSync fail at
\* once with the configuration error: no page is requested (the pass never
\* leaves "idle"), the step changes no local record, no cursor and no mirror
\* page, and so the store of such a deployment stays as it was deployed
C12_NoKeyNoAdvance ==
    /\ [](~env.HEVY_API_KEY =>
             /\ hevyPass.full.pc = "idle" /\ hevyPass.inc.pc = "idle"
             /\ workouts = {} /\ exercises = {} /\ sets = {}
             /\ syncState = None)
    /\ [][ (~env.HEVY_API_KEY /\ last' # last
            /\ last'.op \in {"fullSyncStart", "incrementalSyncStart", "fullSync",
                             "incrementalSync", "fetchHevyWorkouts", "fetchHevyEvents"}) =>
             /\ last'.out = "not configured"
             /\ UNCHANGED <<store, mirror, hevyPass>>
         ]_vars

\* C12 happens: in a deployment without the key, fullSync failed after
\* incrementalSync had failed before it
C12_Witness ==
    /\ ~env.HEVY_API_KEY
    /\ last.op = "fullSync" /\ last.out = "not configured"
    /\ spent.hevy = 2

\* the cursor an incrementalSync pass would start from
CursorOf(st) ==
    IF IsSome(st) /\ Truthy(Val(st).lastEventTimestamp)
    THEN Val(Val(st).lastEventTimestamp) ELSE EpochStart

\* C13: a page request of fullSync or incrementalSync that is answered 429 or
\* with another status that is not ok ends the pass: the pass is idle again
\* (the failed page is not asked for again and no later page is asked for),
\* the step changes no local record and no cursor; for incrementalSync the
\* cursor still is the one the failed pass started from, and every
\* incrementalSync pass starts from the cursor stored at that moment
C13_FetchFailureAborts ==
    /\ [][ (hevyPass.full.pc = "fetch" /\ last'.op = "fullSync") =>
             /\ last'.out \in FetchOutcomes \ {"ok"} /\ last'.n = hevyPass.full.page
             /\ hevyPass'.full = IdlePass
             /\ UNCHANGED <<store, mirror>>
         ]_vars
    /\ [][ (hevyPass.inc.pc = "fetch" /\ last'.op = "incrementalSync") =>
             /\ last'.out \in FetchOutcomes \ {"ok"} /\ last'.n = hevyPass.inc.page
             /\ hevyPass'.inc = IdlePass
             /\ UNCHANGED <<store, mirror>>
             /\ CursorOf(syncState') = hevyPass.inc.since
         ]_vars
    /\ [][ (hevyPass.inc.pc = "idle" /\ hevyPass'.inc.pc = "fetch") =>
             hevyPass'.inc.since = CursorOf(syncState) ]_vars

\* C13 happens: the second page of an incrementalSync pass was answered 429,
\* after an earlier pass had written a cursor
C13_Witness ==
    /\ last.op = "incrementalSync" /\ last.out = "rate limited" /\ last.n = 2
    /\ IsSome(syncState)
    /\ hevyPass.inc.pc = "idle"

\* C14: the cursor changes only in the last step of a source pass, and an
\* incrementalSync pass leaves its loop in one step only: the one taken when
\* no fetched event is left to apply (updated + deleted = total), which
\* writes as lastEventTimestamp the clock read at that moment, later than
\* the clock under which the events were fetched and applied.  So a pass
\* writes the cursor once, at its end, and a pass that ends before that
\* (a failed page request) writes none.
C14_CursorWrittenAtEnd ==
    /\ [][ syncState' # syncState =>
             \/ hevyPass.inc.pc = "run" /\ hevyPass'.inc.pc \in {"idle", "returned"}
             \/ hevyPass.full.pc = "run" /\ hevyPass'.full.pc = "idle"
         ]_vars
    /\ [][ (hevyPass.inc.pc = "run" /\ hevyPass'.inc.pc # "run") =>
             /\ hevyPass.inc.left = 0
             /\ hevyPass.inc.updated + hevyPass.inc.deleted = hevyPass.inc.total
             /\ now' > now
             /\ IsSome(syncState')
             /\ Val(syncState').lastEventTimestamp = Some(now')
             /\ Val(syncState').lastSyncedAt = Some(now')
         ]_vars

\* C14 happens: an incrementalSync pass that applied two events has written
\* the cursor, which an earlier pass had written before
C14_Witness ==
    /\ last.op = "incrementalSync" /\ last.out = "done" /\ last.n = 2
    /\ IsSome(syncState) /\ Val(syncState).lastEventTimestamp = Some(now)
    /\ now >= 3

\* the workout tables without the ids the store assigned: each workout with
\* its exercises, each exercise with its sets
StoreView(st) ==
    { [row |-> [w EXCEPT !.id = 0],
       exs |-> { [row |-> [e EXCEPT !.id = 0, !.workoutId = 0],
                  sets |-> { [x EXCEPT !.id = 0, !.exerciseId = 0, !.workoutId = 0] :
                             x \in {y \in st.sets : y.exerciseId = e.id} }] :
                 e \in {d \in st.exercises : d.workoutId = w.id} }] :
      w \in st.workouts }

\* the events evs applied in order, once
RECURSIVE ApplyAllOn(_, _)
ApplyAllOn(st, evs) ==
    IF evs = <<>> THEN st ELSE ApplyAllOn(ApplyEventOn(st, Head(evs)), Tail(evs))

\* C15: redelivery is safe.  When a pass has applied a prefix of an event
\* list and stopped, and the next pass has applied the whole list, the
\* workouts, exercises and sets (every field, the flags included, ids of the
\* store aside, and as many rows of each table) are what applying the list
\* once to the tables the first pass started on gives; and no exercise or set
\* is left without its workout.
C15_RedeliverySafe ==
    redelivery.pc = "done" =>
       LET st == [workouts |-> workouts, exercises |-> exercises, sets |-> sets,
                  nextId |-> nextId]
       IN /\ StoreView(st) = StoreView(ApplyAllOn(redelivery.base, redelivery.events))
          /\ \A e \in exercises : \E w \in workouts : e.workoutId = w.id
          /\ \A x \in sets : \E e \in exercises : x.exerciseId = e.id
          /\ Cardinality(workouts)
                = Cardinality(ApplyAllOn(redelivery.base, redelivery.events).workouts)
          /\ Cardinality(exercises)
                = Cardinality(ApplyAllOn(redelivery.base, redelivery.events).exercises)
          /\ Cardinality(sets)
                = Cardinality(ApplyAllOn(redelivery.base, redelivery.events).sets)

\* C15 happens: on a store that held a synced workout, a list of three events
\* with a deletion and an update in it was applied after the pass before had
\* stopped behind its second event
C15_Witness ==
    /\ redelivery.pc = "done"
    /\ Len(redelivery.events) = 3 /\ redelivery.cut = 2
    /\ \E i, j \in 1..3 : /\ redelivery.events[i].type = "deleted"
                          /\ redelivery.events[j].type = "updated"
    /\ \E w \in redelivery.base.workouts : w.syncedToNotion

\* C16: a request to POST /sync or POST /full-sync whose Authorization header
\* is missing or is not the bearer secret is answered 401 and starts nothing,
\* in every deployment: a pass started through a route was started by a
\* request that bore the secret
C16_BearerGated ==
    (last.op \in {"fullSyncStart", "incrementalSyncStart"} /\ last.arg \in AuthHeaders) =>
        last.arg = "bearer secret"

\* the sum of weight * reps over the sets I of the payload p that have both
\* values (in hundredths of a kilogram)
RECURSIVE VolumeOver(_, _)
VolumeOver(p, I) ==
    IF I = {} THEN 0
    ELSE LET x == CHOOSE y \in I : TRUE
             st == p.exercises[x[1]].sets[x[2]]
         IN (IF IsSome(st.weight_kg) /\ IsSome(st.reps)
             THEN Val(st.weight_kg) * Val(st.reps) ELSE 0)
            + VolumeOver(p, I \ {x})

\* the workout record upsertWorkout has just written
Stored(p) == CHOOSE w \in workouts : w.hevyId = p.id

\* C17 as stated: the stored totalVolume (kept in tenths) equals the sum of
\* weight * reps over the sets that have both values
C17_VolumeIsSum ==
    last.op = "upsertWorkout" =>
       10 * Stored(Val(last.p)).totalVolume
          = VolumeOver(Val(last.p), PayloadSets(Val(last.p)))

\* C17: after upsertWorkout(p) the stored totalSets is the number of sets of
\* p, so every set counts 1 whether or not it has a weight or reps; and the
\* stored totalVolume is the sum of weight * reps over the sets that have
\* both values, rounded to one decimal (halves up), so a set without weight
\* or without reps adds 0
C17_StoredTotals ==
    last.op = "upsertWorkout" =>
       LET p == Val(last.p) IN
       /\ Stored(p).totalSets = Cardinality(PayloadSets(p))
       /\ Stored(p).totalVolume = RoundDiv(VolumeOver(p, PayloadSets(p)), 10)
       /\ \A x \in PayloadSets(p) :
             LET st == p.exercises[x[1]].sets[x[2]] IN
             (st.weight_kg = None \/ st.reps = None) =>
                VolumeOver(p, PayloadSets(p)) = VolumeOver(p, PayloadSets(p) \ {x})

\* C17 happens: a workout of three sets, one without weight, one without
\* reps, one with both, was stored with a volume
C17_Witness ==
    /\ last.op = "upsertWorkout"
    /\ LET ss == Val(last.p).exercises[1].sets IN
       /\ Len(ss) = 3
       /\ ss[1].weight_kg = None /\ IsSome(ss[1].reps)
       /\ IsSome(ss[2].weight_kg) /\ ss[2].reps = None
       /\ Truthy(ss[3].weight_kg) /\ Truthy(ss[3].reps)
    /\ Stored(Val(last.p)).totalVolume > 0
    /\ Stored(Val(last.p)).totalSets = 3

\* the sets [{weight: 100, reps: 5}, {weight: null, reps: 8}, {weight: 50, reps: 10}]
IsExample(p) ==
    /\ Len(p.exercises) = 1
    /\ Len(p.exercises[1].sets) = 3
    /\ LET ss == p.exercises[1].sets IN
       /\ ss[1].weight_kg = Some(10000) /\ ss[1].reps = Some(5)
       /\ ss[2].weight_kg = None /\ ss[2].reps = Some(8)
       /\ ss[3].weight_kg = Some(5000) /\ ss[3].reps = Some(10)

\* C18 as stated: for the example upsertWorkout stores totalVolume = 1000,
\* totalSets = 3 and totalReps = 15
C18_ExampleAsStated ==
    (last.op = "upsertWorkout" /\ IsExample(Val(last.p))) =>
       /\ Stored(Val(last.p)).totalVolume = 10000
       /\ Stored(Val(last.p)).totalSets = 3
       /\ Stored(Val(last.p)).totalReps = 15

\* C18: for the example upsertWorkout stores totalVolume = 1000.0 (10000
\* tenths), totalSets = 3 and totalReps = 23: the reps of the set without a
\* weight count
C18_ExampleTotals ==
    (last.op = "upsertWorkout" /\ IsExample(Val(last.p))) =>
       /\ Stored(Val(last.p)).totalVolume = 10000
       /\ Stored(Val(last.p)).totalSets = 3
       /\ Stored(Val(last.p)).totalReps = 23

\* C18 happens: the example was stored
C18_Witness ==
    /\ last.op = "upsertWorkout" /\ IsExample(Val(last.p))
    /\ \E w \in workouts : w.hevyId = Val(last.p).id /\ w.totalSets = 3

\* the group an item belongs to: group 0 is the first slice
GroupOf(j) == (j - 1) \div batch.concurrency

\* C19: batchProcess bounds concurrency.  At every moment at most
\* concurrency processor calls are in flight; every call in flight belongs to
\* the last group of which a call was made, so no call of a later group is
\* made while one of an earlier group has not settled; and the calls of a
\* group are made in a step before which no call is in flight and every item
\* of the earlier groups has been started.
C19_BoundedConcurrency ==
    /\ [](Cardinality(batch.inflight) <= batch.concurrency)
    /\ [](\A j \in batch.started, m \in batch.inflight : GroupOf(j) <= GroupOf(m))
    /\ [][ (batch.pc # "idle" /\ batch'.started # batch.started) =>
             /\ batch.inflight = {}
             /\ \A j \in batch'.started \ batch.started, m \in 1..batch.items :
                   GroupOf(m) < GroupOf(j) => m \in batch.started
         ]_vars

\* C19 happens: five items with concurrency 2; the first two groups have
\* settled, one call rejected, and the call for the fifth item is in flight
C19_Witness ==
    /\ batch.items = 5 /\ batch.concurrency = 2
    /\ batch.inflight = {5}
    /\ Len(batch.results) = 3 /\ batch.errors = 1

\* C20: when the mirror calls for a workout have all succeeded (its page and
\* the pages of its exercises and sets were written), the workout names its
\* page and has syncedToNotion = true, and so has every exercise and every
\* set that belongs to it
C20_ChildrenMarkedSynced ==
    (last.op = "syncWorkout" /\ last.out \in {"created", "adopted", "updated"}) =>
       \A w \in WorkoutsOf(workouts, last.arg) :
          /\ w.syncedToNotion /\ IsSome(w.notionPageId)
          /\ \A e \in exercises : e.workoutId = w.id => e.syncedToNotion
          /\ \A x \in sets : x.workoutId = w.id => x.syncedToNotion


\* C21: no mutual exclusion between passes.  No pass reads syncInProgress, so
\* two overlapping syncToNotion calls can both hold the same unsynced workout
\* and both write it to the mirror; in every state reached that way the store
\* holds at most one workout per hevyId and one document per id.
C21_RaceKeepsKeys ==
    /\ HevyIdUnique(workouts)
    /\ \A a \in workouts, b \in workouts : a.id = b.id => a = b

\* the source wrote one workout once, and two syncToNotion calls that are both
\* still running have each pushed it
C21_Witness ==
    /\ spent.hevy = 1 /\ Cardinality(workouts) = 1
    /\ push[1].pc = "run" /\ push[2].pc = "run"
    /\ push[1].synced = 1 /\ push[2].synced = 1
    /\ \E w \in workouts : w.syncedToNotion /\ NamesPage(w, pages, "workouts")


\* the page pg shows the workout w as the store holds it now
ShowsWorkout(pg, w) ==
    /\ pg.db = "workouts" /\ pg.key = w.hevyId
    /\ IF pg.archived THEN w.isDeleted ELSE pg.props = WorkoutProps(w)

\* C29: mirror freshness under interleaving.  In every state a workout with
\* syncedToNotion = true names a mirror page that shows the workout's current
\* local fields, also when an upsertWorkout or markWorkoutDeleted commits
\* between a syncToNotion call reading the workout and its markWorkoutSynced.
C29_SyncedMeansFresh ==
    \A w \in workouts :
       w.syncedToNotion =>
          /\ IsSome(w.notionPageId)
          /\ \E pg \in pages : pg.id = Val(w.notionPageId) /\ ShowsWorkout(pg, w)


RoutineRowsOf(R, hevyId) == {r \in R : r.hevyId = hevyId}

\* C22: the hierarchical upsert applies to routines.  A step that applies
\* upsertRoutine(r) right after a step that applied the same r leaves exactly
\* one routine with hevyId = r.id, the same document as before; its
\* routineExercises and routineSets are exactly those of r, each written by
\* this step, and no routineSet in the store lacks its routineExercise.
C22_UpsertRoutineTwice ==
    [][ (last'.op = "upsertRoutine" /\ last'.n >= 2) =>
          LET r == Val(last'.p)
              before == RoutineRowsOf(routines, r.id)
              after == RoutineRowsOf(routines', r.id)
          IN /\ Cardinality(before) = 1
             /\ Cardinality(after) = 1
             /\ \A b \in before, a \in after :
                   LET exs == {e \in routineExercises' : e.routineId = a.id}
                       sts == {st \in routineSets' : st.routineId = a.id}
                   IN /\ a.id = b.id
                      /\ Cardinality(exs) = Len(r.exercises)
                      /\ Cardinality(sts) = Cardinality(PayloadSets(r))
                      /\ exs \cap routineExercises = {}
                      /\ sts \cap routineSets = {}
                      /\ \A i \in 1..Len(r.exercises) :
                            \E e \in exs :
                               /\ e.index = r.exercises[i].index
                               /\ e.exerciseTemplateId = r.exercises[i].exercise_template_id
                               /\ e.title = r.exercises[i].title
                               /\ e.targetSets = Len(r.exercises[i].sets)
                               /\ Cardinality({st \in sts : st.routineExerciseId = e.id})
                                     = Len(r.exercises[i].sets)
                               /\ \A k \in 1..Len(r.exercises[i].sets) :
                                     \E st \in sts :
                                        /\ st.routineExerciseId = e.id
                                        /\ st.index = r.exercises[i].sets[k].index
                                        /\ st.setType = r.exercises[i].sets[k].type
                                        /\ Truthy(r.exercises[i].sets[k].reps)
                                              => st.targetReps = r.exercises[i].sets[k].reps
             /\ \A st \in routineSets' :
                   \E e \in routineExercises' :
                      e.id = st.routineExerciseId /\ e.routineId = st.routineId
      ]_vars

\* C22 happens: RoutineR1 (two exercises, one set) was applied twice in a
\* row; the second application replaced the three child rows of the first
C22_Witness ==
    /\ last.op = "upsertRoutine" /\ last.n = 2 /\ last.p = Some(RoutineR1)
    /\ Cardinality(routineExercises) = 2 /\ Cardinality(routineSets) = 1
    /\ \A e \in routineExercises : e.id >= 5


\* C23: a deleted event whose id matches no local workout is a silent no-op.
\* The markWorkoutDeleted step creates no record and leaves every workout,
\* exercise and set as it was, and the pass is not aborted: it counts the
\* event and goes on to the next one.
C23_AbsentDeleteIsNoOp ==
    [][ (last'.op = "markWorkoutDeleted" /\ last'.out = "absent") =>
          /\ workouts' = workouts
          /\ exercises' = exercises
          /\ sets' = sets
          /\ nextId' = nextId
          /\ hevyPass'.inc.pc = "run"
          /\ hevyPass'.inc.left = hevyPass.inc.left - 1
          /\ hevyPass'.inc.deleted = hevyPass.inc.deleted + 1
      ]_vars

\* C23 happens: the store holds a live workout, the event named another id,
\* and the pass has one more event to apply
C23_Witness ==
    /\ last.op = "markWorkoutDeleted" /\ last.out = "absent"
    /\ \E w \in workouts : w.hevyId # last.arg /\ ~w.isDeleted
    /\ hevyPass.inc.pc = "run" /\ hevyPass.inc.left = 1


\* the week number of the stored folder a routine payload names, 0 when the
\* payload names none, the folder is not stored or its title has no week
WeekOf(F, routine) ==
    IF routine.folder_id = None THEN 0
    ELSE LET fs == {f \in F : f.hevyId = Val(routine.folder_id)} IN
         IF fs = {} THEN 0
         ELSE LET f == CHOOSE f \in fs : TRUE IN
              IF f.weekNumber = None THEN 0 ELSE Val(f.weekNumber)

DayOf(routine) ==
    IF parseDayNumber(routine.title) = None THEN 0 ELSE Val(parseDayNumber(routine.title))

\* C24: the sort keys.  Every routine exercise upsertRoutine writes has
\* globalSortOrder = week * 10000 + day * 100 + exerciseOrder, week being the
\* week number of the routine's stored folder and day the day number parsed
\* from the routine's title, each 0 when missing; the routine gets
\* sortOrder = week * 100 + day, and a folder written by upsertRoutineFolder
\* gets sortOrder = week * 100 + index with the week parsed from its title.
C24_SortKeys ==
    [][ /\ last'.op = "upsertRoutine" =>
             LET r == Val(last'.p)
                 week == WeekOf(routineFolders, r)
                 day == DayOf(r)
             IN \A d \in RoutineRowsOf(routines', r.id) :
                   /\ d.sortOrder = week * 100 + day
                   /\ Cardinality({e \in routineExercises' : e.routineId = d.id})
                         = Len(r.exercises)
                   /\ \A e \in routineExercises' :
                         e.routineId = d.id =>
                            /\ \E i \in 1..Len(r.exercises) : e.exerciseOrder = r.exercises[i].index
                            /\ e.globalSortOrder = week * 10000 + day * 100 + e.exerciseOrder
        /\ last'.op = "upsertRoutineFolder" =>
             LET folder == Val(last'.p) IN
             \A f \in routineFolders' :
                f.hevyId = folder.id =>
                   /\ f.weekNumber = parseWeekNumber(folder.title)
                   /\ f.sortOrder = (IF f.weekNumber = None THEN 0 ELSE Val(f.weekNumber)) * 100
                                    + folder.index
      ]_vars

\* C24 happens: week 2, day 3, exerciseOrder 1 gives 20301 (its routine 203
\* and its folder 200), beside an exercise of a routine with neither week
\* nor day
C24_Witness ==
    /\ \E e \in routineExercises :
          /\ e.weekNumber = Some(2) /\ e.dayNumber = Some(3) /\ e.exerciseOrder = 1
          /\ e.globalSortOrder = 20301
          /\ \E d \in routines : d.id = e.routineId /\ d.sortOrder = 203
    /\ \E f \in routineFolders : f.weekNumber = Some(2) /\ f.sortOrder = 200
    /\ \E e \in routineExercises :
          e.weekNumber = None /\ e.dayNumber = None /\ e.globalSortOrder = e.exerciseOrder


\* the start time of the workout an exercise row belongs to
StartOf(e) == (CHOOSE w \in workouts : w.id = e.workoutId).startTime
\* the exercise rows of a template whose workout started last
MostRecent(template) ==
    {e \in exercises : /\ e.exerciseTemplateId = template
                       /\ \A f \in exercises :
                             f.exerciseTemplateId = template => StartOf(f) <= StartOf(e)}
NonWarmup(e) == {st \in sets : st.exerciseId = e.id /\ st.setType # "warmup"}

\* C25: last performance in calculateAllExerciseProgress.  After the
\* aggregation every template's record has lastPerformedAt = the greatest
\* start time among the workouts holding the template, and lastWeightKg and
\* lastReps are the weight and reps of the last non-warmup set of an exercise
\* of such a workout; when that exercise has no non-warmup set both are
\* undefined, whatever older exercises hold.
C25_LastPerformance ==
    last.op = "calculateAllExerciseProgress" =>
       \A e \in exercises :
          \E r \in exerciseProgress :
             /\ r.exerciseTemplateId = e.exerciseTemplateId
             /\ \E m \in MostRecent(r.exerciseTemplateId) :
                   /\ r.lastPerformedAt = Some(StartOf(m))
                   /\ IF NonWarmup(m) = {}
                      THEN r.lastWeightKg = None /\ r.lastReps = None
                      ELSE \E st \in NonWarmup(m) :
                              /\ \A o \in NonWarmup(m) : o.id <= st.id
                              /\ r.lastWeightKg = st.weightKg
                              /\ r.lastReps = st.reps

\* C25 happens: the latest session of t1 has warm-up sets only while an older
\* session has a working set, and the record carries no last weight or reps
C25_Witness ==
    /\ last.op = "calculateAllExerciseProgress"
    /\ \E old \in exercises, new \in exercises :
          /\ old.exerciseTemplateId = "t1" /\ new.exerciseTemplateId = "t1"
          /\ StartOf(old) < StartOf(new)
          /\ NonWarmup(old) # {} /\ NonWarmup(new) = {}
          /\ \E st \in sets : st.exerciseId = new.id
    /\ \E r \in exerciseProgress :
          /\ r.exerciseTemplateId = "t1"
          /\ r.lastPerformedAt = Some(86400000)
          /\ r.lastWeightKg = None /\ r.lastReps = None
          /\ IsSome(r.maxWeightKg)


\* C26: batchProcess accounts for every item exactly once and a failed
\* processor call never makes it fail.  A rejected call leaves the function
\* awaiting the rest of its batch; when the function returns,
\* results.length + errors = items.length, results holds the values of
\* exactly the fulfilled calls, each once and in item order, and errors is
\* the number of rejected calls.  Until then the values pushed and the
\* rejections counted are those of the batches already settled.
C26_BatchAccounting ==
    /\ [](batch.pc # "idle" =>
             /\ Len(batch.results) + batch.errors = Cardinality({j \in 1..batch.items : j <= batch.i})
             /\ \A k \in 1..Len(batch.results) :
                   /\ batch.results[k] \in batch.fulfilled
                   /\ \A m \in 1..Len(batch.results) : k < m => batch.results[k] < batch.results[m]
             /\ batch.pc \in {"loop", "await"})
    /\ []((last.op = "batchProcess" /\ last.out = "done") =>
             /\ Len(batch.results) + batch.errors = batch.items
             /\ {batch.results[k] : k \in 1..Len(batch.results)} = batch.fulfilled
             /\ batch.errors = Cardinality(batch.rejected)
             /\ batch.fulfilled \cup batch.rejected = 1..batch.items
             /\ batch.fulfilled \cap batch.rejected = {})
    /\ [][ (last'.op = "processor" /\ last'.out = "rejected") =>
             batch'.pc = "await" /\ batch'.results = batch.results ]_vars

\* C26 happens: five items in batches of two, the calls for items 2 and 3
\* rejected in different batches, and batchProcess has returned
C26_Witness ==
    /\ last.op = "batchProcess" /\ last.out = "done"
    /\ batch.items = 5 /\ batch.concurrency = 2
    /\ batch.results = << 1, 4, 5 >> /\ batch.errors = 2
    /\ batch.rejected = {2, 3}


\* the pages a step created
Created(P, P2) == {pg \in P2 : \A old \in P : old.id # pg.id}

\* C27: parent before child in every push pass.  A step of syncToNotion
\* creates an exercise page only with the workout's page as relation target,
\* that page having been written by the calls before it (created earlier in
\* the step, or an existing page taken over and updated), and a set page only
\* under an exercise page created earlier in the step.  A step of
\* syncRoutinesToNotion creates a routine page only under the page its
\* folder was given earlier in the same pass, and a routine exercise page
\* only under the page its routine was given earlier in the same pass; so
\* nothing is created under a parent whose push failed.
C27_ParentBeforeChild ==
    [][ /\ last'.op = "syncWorkout" =>
             \A pg \in Created(pages, pages') :
                /\ pg.db \in {"workouts", "exercises", "sets"}
                /\ pg.db = "exercises" =>
                      \E wp \in pages' :
                         /\ pg.parent = Some(wp.id)
                         /\ wp.db = "workouts" /\ wp.key = last'.arg /\ ~wp.archived
                         /\ wp.props = WorkoutProps(Head(push[1].queue))
                         /\ wp \in Created(pages, pages') => wp.id < pg.id
                /\ pg.db = "sets" =>
                      \E ep \in Created(pages, pages') :
                         pg.parent = Some(ep.id) /\ ep.db = "exercises" /\ ep.id < pg.id
        /\ last'.op = "pushRoutine" =>
             \A pg \in Created(pages, pages') :
                \E fp \in pages, r \in routines, f \in routineFolders :
                   /\ pg.db = "routines" /\ pg.parent = Some(fp.id)
                   /\ fp.db = "programs" /\ fp.id >= rpush.base
                   /\ r.hevyId = pg.key /\ r.folderId = Some(f.id)
                   /\ f.syncedToNotion /\ f.notionPageId = Some(fp.id)
        /\ last'.op = "pushRoutineExercise" =>
             \A pg \in Created(pages, pages') :
                \E rp \in pages, e \in routineExercises, r \in routines :
                   /\ pg.db = "routineExercises" /\ pg.parent = Some(rp.id)
                   /\ rp.db = "routines" /\ rp.id >= rpush.base /\ rp.key = r.hevyId
                   /\ e.id = last'.n /\ e.routineId = r.id
                   /\ r.syncedToNotion /\ r.notionPageId = Some(rp.id)
        /\ (last'.op = "pushFolder" /\ last'.out = "failed") =>
             \A i \in 1..Len(rpush'.results) :
                \A j \in 1..Len(rpush'.results[i].items) :
                   rpush'.results[i].items[j].folderId # Some(Head(rpush.queue).id)
      ]_vars

\* C27 happens: a pass of syncRoutinesToNotion has created a folder page, a
\* routine page under it and a routine exercise page under that one
C27_Witness ==
    /\ last.op = "pushRoutineExercise" /\ last.out = "synced"
    /\ \E fp \in pages, rp \in pages, ep \in pages :
          /\ fp.db = "programs" /\ rp.db = "routines" /\ ep.db = "routineExercises"
          /\ rpush.base <= fp.id /\ fp.id < rp.id /\ rp.id < ep.id
          /\ rp.parent = Some(fp.id) /\ ep.parent = Some(rp.id)


\* C28: syncRoutinesToNotion pushes every record whose flag is false.  When a
\* pass in which no mirror call failed has returned, every routine, in a
\* folder or not, every routine exercise and every routine set has
\* syncedToNotion = true.
C28_AllRoutinesPushed ==
    (last.op = "syncRoutinesToNotion" /\ last.out = "done" /\ last.n = 0) =>
       /\ \A r \in routines : r.syncedToNotion
       /\ \A e \in routineExercises : e.syncedToNotion
       /\ \A st \in routineSets : st.syncedToNotion


\* C30: no event is skipped by the cursor.  Between passes, every event the
\* source logged after a cursor that some incrementalSync pass read has been
\* applied to the store, or is later than the stored cursor and so will be
\* returned to the next pass; in particular an event logged after a pass
\* fetched its events and before the pass wrote the cursor.
C30_NoEventSkipped ==
    feed.pc = "idle" =>
       \A i \in 1..Len(feed.log) :
          (\E c \in feed.reads : feed.log[i].time > c) =>
             \/ i \in feed.applied
             \/ feed.log[i].time > CursorOf(syncState)


\* the rows of a workout the source deleted at log position i while no pass
\* was running, before a fullSync that one or more incrementalSync passes
\* followed, and did not log again
DeletedBeforeFullSync(i) ==
    LET ev == feed.log[i].ev
        t == feed.log[i].time
    IN IF /\ ev.type = "deleted"
          /\ LatestEvent(feed.log, Val(ev.id)) = i
          /\ \A k \in 1..Len(feed.trail) : feed.trail[k].to < t \/ feed.trail[k].from >= t
          /\ \E k \in 1..Len(feed.trail) - 1 :
                /\ feed.trail[k].kind = "full"
                /\ feed.trail[k].from >= t
                /\ \A j \in 1..k-1 : feed.trail[j].to < t
                /\ \A j \in k+1..Len(feed.trail) : feed.trail[j].kind = "incremental"
       THEN {w \in workouts : w.hevyId = Val(ev.id)}
       ELSE {}

\* C31: fullSync does not lose deletions.  A workout that is in the store
\* and is deleted at the source after the last pass is tombstoned in the
\* store once a fullSync and then one or more incrementalSync passes have
\* completed: the cursor fullSync writes does not hide the deletion.
C31_FullSyncKeepsDeletions ==
    feed.pc = "idle" =>
       \A i \in 1..Len(feed.log) : \A w \in DeletedBeforeFullSync(i) : w.isDeleted


\* the positions, among those a pass was handed, of the events about a workout
FetchedAbout(hevyId) ==
    {i \in feed.fetched :
        \/ feed.log[i].ev.id = Some(hevyId)
        \/ IsSome(feed.log[i].ev.workout) /\ Val(feed.log[i].ev.workout).id = hevyId}

\* C38: latest wins within a pass.  When the events one incrementalSync pass
\* was handed hold both an update and a deletion of a workout, then after the
\* pass the workout's row is tombstoned exactly if the later of its events
\* is the deletion, in whatever order the source listed the events.
C38_LatestWinsWithinPass ==
    (feed.pc = "idle" /\ feed.kind = "incremental") =>
       \A h \in HevyIds :
          LET about == FetchedAbout(h) IN
          ( /\ \E i \in about : feed.log[i].ev.type = "updated"
            /\ \E i \in about : feed.log[i].ev.type = "deleted" ) =>
             /\ \E w \in workouts : w.hevyId = h
             /\ \A w \in workouts :
                   w.hevyId = h => (w.isDeleted <=> feed.log[Max(about)].ev.type = "deleted")


\* C32: a tombstoned workout is never published as a live page.  The turn of
\* syncToNotion for a workout that is deleted and names no page creates no
\* page and changes no page that is then not archived.
C32_TombstoneNotPublished ==
    [][ ( /\ last'.op = "syncWorkout"
          /\ push[1].pc = "run" /\ push[1].queue # <<>>
          /\ Head(push[1].queue).isDeleted
          /\ ~IsSome(Head(push[1].queue).notionPageId) ) =>
             \A pg \in pages' \ pages : pg.archived
      ]_vars


\* the live exercise pages related to a workout page, and the live set pages
\* related to an exercise page
ExercisePagesOf(P, workoutPageId) ==
    {pg \in P : pg.db = "exercises" /\ ~pg.archived /\ pg.parent = Some(workoutPageId)}
SetPagesOf(P, exercisePageId) ==
    {pg \in P : pg.db = "sets" /\ ~pg.archived /\ pg.parent = Some(exercisePageId)}

\* C33: mirror children are not duplicated on re-push.  When a turn of
\* syncToNotion has pushed a workout again, every call succeeding, the live
\* exercise pages related to the workout's page are as many as the workout's
\* exercise rows, and the live set pages under them as many as its set rows.
C33_ChildrenNotDuplicated ==
    [][ (last'.op = "syncWorkout" /\ last'.out = "updated") =>
          \A w \in workouts' :
             (w.hevyId = last'.arg /\ IsSome(w.notionPageId)) =>
                LET eps == ExercisePagesOf(pages', Val(w.notionPageId)) IN
                /\ Cardinality(eps) = Cardinality({e \in exercises' : e.workoutId = w.id})
                /\ Cardinality(UNION {SetPagesOf(pages', pg.id) : pg \in eps})
                      = Cardinality({st \in sets' : st.workoutId = w.id})
      ]_vars


\* C34: referential integrity holds between mutations.  Every exercise names
\* a stored workout; every set names a stored exercise of the workout the set
\* names; every routineExercise names a stored routine; every routineSet
\* names a stored routineExercise of the routine the routineSet names.
C34_ReferentialIntegrity ==
    /\ \A e \in exercises : \E w \in workouts : w.id = e.workoutId
    /\ \A st \in sets :
          \E e \in exercises : e.id = st.exerciseId /\ e.workoutId = st.workoutId
    /\ \A e \in routineExercises : \E r \in routines : r.id = e.routineId
    /\ \A st \in routineSets :
          \E e \in routineExercises :
             e.id = st.routineExerciseId /\ e.routineId = st.routineId

\* C34 happens: a tombstoned workout keeps its exercises and sets, beside a
\* routine stored with its exercises and sets
C34_Witness ==
    /\ \E w \in workouts :
          /\ w.isDeleted
          /\ \E st \in sets : st.workoutId = w.id
    /\ routineSets # {}
    /\ Quiet


\* every record of T is in T2 with the page id it had
KeepsPageIds(T, T2) ==
    \A d \in T : \E d2 \in T2 : d2.id = d.id /\ d2.notionPageId = d.notionPageId

\* C35: reconciler writes never change a record's mirror page id.
\* upsertWorkout and markWorkoutDeleted leave every workout's notionPageId as
\* it was, upsertRoutineFolder every folder's and upsertRoutine every
\* routine's; a workout's notionPageId changes only in the turn of
\* syncToNotion that marks it synced, and only when it named no page before.
C35_PageIdFrame ==
    [][ /\ last'.op \in {"upsertWorkout", "markWorkoutDeleted"} =>
              KeepsPageIds(workouts, workouts')
        /\ last'.op = "upsertRoutineFolder" => KeepsPageIds(routineFolders, routineFolders')
        /\ last'.op = "upsertRoutine" =>
              KeepsPageIds(routines, routines') /\ KeepsPageIds(routineFolders, routineFolders')
        /\ \A w \in workouts : \A w2 \in workouts' :
              (w2.id = w.id /\ w2.notionPageId # w.notionPageId) =>
                 /\ last'.op = "syncWorkout"
                 /\ ~IsSome(w.notionPageId)
        /\ \A w \in workouts : \E w2 \in workouts' : w2.id = w.id
      ]_vars

\* C35 happens: upsertWorkout has patched a workout that names a page
C35_Witness ==
    /\ last.op = "upsertWorkout" /\ last.out = "patched"
    /\ \E w \in workouts : w.hevyId = last.arg /\ IsSome(w.notionPageId)


\* (week, day) of a comes before that of b, and the same with the exercise index
WeekDayBefore(a, b) == a.week < b.week \/ (a.week = b.week /\ a.day < b.day)
TripleBefore(a, b) ==
    \/ WeekDayBefore(a, b)
    \/ a.week = b.week /\ a.day = b.day /\ a.exerciseOrder < b.exerciseOrder

\* the keys of a and b are in the order of their fields, and differ when the
\* fields do
KeysInOrder(a, b) ==
    /\ TripleBefore(a, b) => a.globalSortOrder < b.globalSortOrder
    /\ WeekDayBefore(a, b) => a.sortOrder < b.sortOrder
    /\ ( \/ a.week # b.week \/ a.day # b.day \/ a.exerciseOrder # b.exerciseOrder )
          => a.globalSortOrder # b.globalSortOrder

\* C36 (as stated): for all week, day and exerciseOrder of 0 or more, the
\* sort keys are in the lexicographic order of (week, day, exerciseOrder),
\* the routine sortOrder in that of (week, day), and two different triples
\* never get the same globalSortOrder.
C36_SortKeysMonotoneAsStated ==
    last.op = "sortKeys" => KeysInOrder(Val(last.p)[1], Val(last.p)[2])

\* C36: the sort keys preserve the hierarchical order while the day number
\* and the exercise index are below 100: then (week, day, exerciseOrder)
\* lexicographically less implies globalSortOrder less, (week, day) less
\* implies routine sortOrder less, and different triples get different
\* globalSortOrder.
C36_SortKeysMonotone ==
    (last.op = "sortKeys" /\ \A i \in {1, 2} : /\ Val(last.p)[i].day < 100
                                               /\ Val(last.p)[i].exerciseOrder < 100) =>
       KeysInOrder(Val(last.p)[1], Val(last.p)[2])

\* C36 happens: week 0, day 99, index 99 (key 9999) beside week 1, day 0,
\* index 0 (key 10000)
C36_Witness ==
    /\ last.op = "sortKeys"
    /\ Val(last.p)[1].week = 0 /\ Val(last.p)[1].day = 99 /\ Val(last.p)[1].exerciseOrder = 99
    /\ Val(last.p)[2].week = 1 /\ Val(last.p)[2].day = 0 /\ Val(last.p)[2].exerciseOrder = 0
    /\ Val(last.p)[1].globalSortOrder = 9999 /\ Val(last.p)[2].globalSortOrder = 10000


\* the routine d has a folder and the week number of that folder as it is in F
AgreesWithFolder(d, F) ==
    IsSome(d.folderId) => \A f \in F : f.id = Val(d.folderId) => d.weekNumber = f.weekNumber

\* every routineExercise has the week and day numbers of its routine
ExercisesAgree(R, RE) ==
    \A e \in RE : \A d \in R :
       e.routineId = d.id => e.weekNumber = d.weekNumber /\ e.dayNumber = d.dayNumber

\* C37 (as stated): after a completed syncRoutines pass every stored routine
\* that has a folder has that folder's current weekNumber, and every
\* routineExercise the weekNumber and dayNumber of its routine.
C37_DenormalizedAgreeAsStated ==
    [][ (last'.op = "syncRoutines" /\ last'.out = "done") =>
          /\ \A d \in routines' : AgreesWithFolder(d, routineFolders')
          /\ ExercisesAgree(routines', routineExercises')
      ]_vars

\* C37: after a completed syncRoutines pass every routine the pass stored
\* that has a folder has that folder's current weekNumber; every
\* routineExercise has the weekNumber and dayNumber of its routine; and once
\* the pass has begun to store routines no folder changes until it ends.
C37_DenormalizedAgree ==
    /\ [][ (last'.op = "syncRoutines" /\ last'.out = "done") =>
              \A d \in routines' :
                 d.hevyId \in hevyPass.rout.upserted => AgreesWithFolder(d, routineFolders')
        ]_vars
    /\ [] ExercisesAgree(routines, routineExercises)
    /\ [][ hevyPass.rout.pc = "routines" => routineFolders' = routineFolders ]_vars

\* C37 happens: a pass has ended that stored routine r1 and its exercises
\* under the folder of week 2
C37_Witness ==
    /\ last.op = "syncRoutines" /\ last.out = "done"
    /\ \E d \in routines :
          /\ d.hevyId = "r1" /\ IsSome(d.folderId) /\ d.weekNumber = Some(2)
          /\ \E f \in routineFolders : f.id = Val(d.folderId) /\ f.weekNumber = Some(2)
          /\ \E e \in routineExercises :
                e.routineId = d.id /\ e.weekNumber = Some(2) /\ e.dayNumber = Some(3)


\* the exercise rows of a template whose workout is not tombstoned, and the
\* weights of their sets
LiveExercises(template) ==
    {e \in exercises : /\ e.exerciseTemplateId = template
                       /\ \E w \in workouts : w.id = e.workoutId /\ ~w.isDeleted}
LiveWeights(template) ==
    {OrZero(st.weightKg) : st \in {x \in sets : \E e \in LiveExercises(template) :
                                                   x.exerciseId = e.id}}

\* C39: exercise progress ignores tombstoned workouts.  After
\* calculateAllExerciseProgress the record of every template that has
\* exercise rows is computed from the exercises of workouts with isDeleted =
\* false only: lastPerformedAt is the latest start time among them (none
\* when there is none) and maxWeightKg the greatest weight of their sets.
C39_ProgressIgnoresTombstones ==
    last.op = "calculateAllExerciseProgress" =>
       \A r \in exerciseProgress :
          (\E e \in exercises : e.exerciseTemplateId = r.exerciseTemplateId) =>
             LET live == LiveExercises(r.exerciseTemplateId)
                 top == Max({0} \cup LiveWeights(r.exerciseTemplateId))
             IN /\ r.lastPerformedAt =
                      (IF live = {} THEN None ELSE Some(Max({StartOf(e) : e \in live})))
                /\ r.maxWeightKg = (IF top > 0 THEN Some(top) ELSE None)

=============================================================================
